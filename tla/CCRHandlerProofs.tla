-------------------------- MODULE CCRHandlerProofs --------------------------
(***************************************************************************)
(* The types, the end of sessions nobody knows, what the end of a session  *)
(* leaves, the rules in the gateway and in the cache, the end of linked    *)
(* sessions, the registry the cache is, what a refresh passes over and     *)
(* what kills the process, for any number of threads, sessions and         *)
(* requests and any messages and rules.                                    *)
(***************************************************************************)
EXTENDS CCRHandler, ListProofs

Fields == {"pc", "msg", "conn", "code", "actions", "data", "core", "todo",
           "dialect", "ask", "active", "rules", "quotas", "old", "answer"}
ClientFields == {"pc", "abort", "todo", "at", "rules", "active", "keys"}
Gateway == {"new", "opening", "open", "closed"}

(* A handler that has a session to name for the refresh queue, cached *)
Asking(h) == h.ask /\ h.pc \in {"uli", "rar", "rules", "send"}
Asks(s) == \E t \in Thread : Asking(hand[t]) /\ At(t) = s
Visits(s) == client.pc = "next" /\ client.abort /\ s \in client.todo

ShapeInv ==
  /\ gw \in [Session -> Gateway]
  /\ DOMAIN cache = Session
  /\ DOMAIN hand = Thread
  /\ DOMAIN client = ClientFields
  /\ \A t \in Thread :
       /\ DOMAIN hand[t] = Fields
       /\ hand[t].pc # "idle" => hand[t].msg \in DOMAIN Message

(* Only the end of a session makes a handler remove it. *)
EndInv ==
  \A t \in Thread :
    hand[t].pc \in {"linked", "ending", "remove"} => gw[At(t)] = "closed"

(* A session that has to be told is over, told, or still cached and about  *)
(* to be named, in the queue, or in the hands of the refresh thread.       *)
OwedInv ==
  \A s \in owed \cap Core :
    \/ gw[s] = "closed"
    \/ s \in told
    \/ cache[s] # {} /\ (s \in aborts \/ Visits(s) \/ Asks(s))

IInv == ShapeInv /\ EndInv /\ OwedInv

-----------------------------------------------------------------------------
LEMMA IdleShape ==
  /\ DOMAIN Idle = Fields
  /\ Idle.pc = "idle"
  /\ DOMAIN Resting = ClientFields
  /\ Resting.pc = "idle"
BY DEF Idle, Resting, Fields, ClientFields

LEMMA Initially == Init => IInv
<1> SUFFICES ASSUME Init PROVE IInv
  OBVIOUS
<1> USE IdleShape
<1>1. ShapeInv
  BY DEF Init, ShapeInv, Gateway
<1>2. EndInv
  BY DEF Init, EndInv
<1>3. OwedInv
  BY DEF Init, OwedInv
<1> QED BY <1>1, <1>2, <1>3 DEF IInv

(* What a step of a handler may do. *)
LEMMA HandlerStep ==
  ASSUME IInv, NEW t \in Thread, NEW h,
         hand' = [hand EXCEPT ![t] = h],
         DOMAIN h = Fields,
         h.pc # "idle" => h.msg \in DOMAIN Message,
         h.pc \in {"linked", "ending", "remove"} => gw'[SessionOf[h.msg]] = "closed",
         gw' \in [Session -> Gateway],
         \A s \in Session : gw[s] = "closed" => gw'[s] = "closed",
         told \subseteq told', aborts \subseteq aborts', client' = client,
         DOMAIN cache' = Session,
         \A s \in Session : cache[s] # {} => cache'[s] # {} \/ gw[s] = "closed",
         Asking(hand[t]) => \/ Asking(h) /\ h.msg = hand[t].msg
                            \/ At(t) \in aborts',
         \A s \in owed' \cap Core :
            \/ s \in owed
            \/ cache'[s] # {} /\ Asking(h) /\ SessionOf[h.msg] = s
  PROVE  IInv'
<1>1. ShapeInv'
  BY DEF IInv, ShapeInv
<1>2. EndInv'
  <2> SUFFICES ASSUME NEW u \in Thread,
                      hand'[u].pc \in {"linked", "ending", "remove"}
               PROVE  gw'[SessionOf[hand'[u].msg]] = "closed"
    BY DEF EndInv, At
  <2>1. CASE u = t
    BY <2>1 DEF IInv, ShapeInv
  <2>2. CASE u # t
    <3>1. hand'[u] = hand[u]
      BY <2>2 DEF IInv, ShapeInv
    <3>2. SessionOf[hand[u].msg] \in Session
      BY <3>1, MessageAssumption DEF IInv, ShapeInv
    <3> QED BY <3>1, <3>2 DEF IInv, EndInv, At
  <2> QED BY <2>1, <2>2
<1>3. OwedInv'
  <2> SUFFICES ASSUME NEW s \in (owed \cap Core)'
               PROVE  \/ gw'[s] = "closed"
                      \/ s \in told'
                      \/ cache'[s] # {} /\ (s \in aborts' \/ Visits(s)' \/ Asks(s)')
    BY DEF OwedInv
  <2>0. s \in Session /\ s \in owed' \cap Core
    BY DEF Core
  <2>1. hand'[t] = h
    BY DEF IInv, ShapeInv
  <2>2. CASE s \notin owed
    BY <2>0, <2>1, <2>2 DEF Asks, At
  <2>3. CASE s \in owed
    <3>1. \/ gw[s] = "closed"
          \/ s \in told
          \/ cache[s] # {} /\ (s \in aborts \/ Visits(s) \/ Asks(s))
      BY <2>0, <2>3 DEF IInv, OwedInv
    <3>2. CASE Asks(s)
      <4>1. PICK u \in Thread : Asking(hand[u]) /\ At(u) = s
        BY <3>2 DEF Asks
      <4>2. CASE u = t
        BY <2>0, <2>1, <3>1, <4>1, <4>2 DEF Asks, At
      <4>3. CASE u # t
        <5>1. hand'[u] = hand[u]
          BY <4>3 DEF IInv, ShapeInv
        <5>2. Asks(s)'
          BY <4>1, <5>1 DEF Asks, At
        <5> QED BY <2>0, <3>1, <5>2
      <4> QED BY <4>2, <4>3
    <3>3. CASE Visits(s)
      BY <2>0, <3>1, <3>3 DEF Visits
    <3>4. CASE ~Asks(s) /\ ~Visits(s)
      BY <2>0, <3>1, <3>4
    <3> QED BY <3>2, <3>3, <3>4
  <2> QED BY <2>2, <2>3
<1> QED BY <1>1, <1>2, <1>3 DEF IInv

-----------------------------------------------------------------------------
(* Most steps leave the gateways, the cache and what is owed alone. *)
LEMMA OwnStep ==
  ASSUME IInv, NEW t \in Thread, NEW h,
         Go(t, h),
         DOMAIN h = Fields,
         h.msg = hand[t].msg,
         hand[t].pc # "idle",
         h.pc \in {"linked", "ending", "remove"} =>
           hand[t].pc \in {"linked", "ending"},
         UNCHANGED <<gw, told, client, cache>>,
         aborts \subseteq aborts',
         Asking(hand[t]) => Asking(h) \/ At(t) \in aborts',
         owed' \cap Core \subseteq owed
  PROVE  IInv'
<1>1. h.msg \in DOMAIN Message
  BY DEF IInv, ShapeInv
<1>2. h.pc \in {"linked", "ending", "remove"} => gw'[SessionOf[h.msg]] = "closed"
  BY DEF IInv, EndInv, At
<1>3. gw' \in [Session -> Gateway] /\ DOMAIN cache' = Session
  BY DEF IInv, ShapeInv
<1>4. told \subseteq told'
  OBVIOUS
<1>5. hand' = [hand EXCEPT ![t] = h]
  BY DEF Go
<1> QED BY <1>1, <1>2, <1>3, <1>4, <1>5, HandlerStep

LEMMA Shape ==
  ASSUME IInv, NEW t \in Thread
  PROVE  /\ DOMAIN hand[t] = Fields
         /\ hand[t].pc # "idle" =>
              /\ hand[t].msg \in DOMAIN Message
              /\ At(t) \in Session
              /\ Type[hand[t].msg] \in {"INITIAL", "UPDATE", "TERMINATION"}
BY MessageAssumption DEF IInv, ShapeInv, At

LEMMA Different == Core \cap Procera = {}
BY DEF Core, Procera, CoreDialect

LEMMA ToldAreProcera ==
  ASSUME NEW s
  PROVE  MustBeTold(s) \subseteq Procera \cap Children(s) \cap Cached
BY DEF MustBeTold

LEMMA NoCoreKeeps ==
  ASSUME IInv, NEW t \in Thread, hand[t].pc \in {"find", "look"}, NoCore(t),
         UNCHANGED <<gw, told, client, cache, aborts, owed>>
  PROVE  IInv'
<1> DEFINE h == [hand[t] EXCEPT
                  !.pc = Inserts(hand[t].msg), !.core = NoSession,
                  !.code = IF DialectOf[At(t)] =
                              IF Type[hand[t].msg] = "INITIAL" THEN "Procera"
                                                               ELSE "SCE"
                           THEN 5030 ELSE @]
<1>1. Go(t, h)
  BY DEF NoCore
<1>2. DOMAIN h = Fields /\ h.msg = hand[t].msg /\ h.pc \in {"insert", "store"}
  BY Shape DEF Fields, Inserts
<1> HIDE DEF h
<1> QED BY <1>1, <1>2, OwnStep DEF Asking

LEMMA FindKeeps ==
  ASSUME IInv, NEW t \in Thread, Find(t) \/ Look(t) \/ Adopt(t)
  PROVE  IInv'
<1>0. UNCHANGED <<gw, told, client, cache, aborts, owed>>
  BY DEF Find, Look, Adopt, Unmoved, gateways, requests, registry
<1>1. CASE NoCore(t) /\ (Find(t) \/ Look(t))
  BY <1>0, <1>1, NoCoreKeeps DEF Find, Look
<1>2. CASE Find(t) /\ ~NoCore(t)
  <2> DEFINE h == [hand[t] EXCEPT !.pc = "look", !.core = Last(order)]
  <2>1. Go(t, h) /\ hand[t].pc = "find"
    BY <1>2 DEF Find
  <2>2. DOMAIN h = Fields /\ h.msg = hand[t].msg /\ h.pc = "look"
    BY Shape DEF Fields
  <2> HIDE DEF h
  <2> QED BY <1>0, <2>1, <2>2, OwnStep DEF Asking
<1>3. CASE Look(t) /\ ~NoCore(t)
  <2> DEFINE h == [hand[t] EXCEPT !.pc = "fill"]
  <2>1. Go(t, h) /\ hand[t].pc = "look"
    BY <1>3 DEF Look, Then
  <2>2. DOMAIN h = Fields /\ h.msg = hand[t].msg /\ h.pc = "fill"
    BY Shape DEF Fields
  <2> HIDE DEF h
  <2> QED BY <1>0, <2>1, <2>2, OwnStep DEF Asking
<1>4. CASE Adopt(t)
  <2> DEFINE h == [hand[t] EXCEPT !.pc = Inserts(hand[t].msg),
                                  !.data = FilledFrom(@, hand[t].core)]
  <2>1. Go(t, h) /\ hand[t].pc = "fill"
    BY <1>4 DEF Adopt
  <2>2. DOMAIN h = Fields /\ h.msg = hand[t].msg /\ h.pc \in {"insert", "store"}
    BY Shape DEF Fields, Inserts
  <2> HIDE DEF h
  <2> QED BY <1>0, <2>1, <2>2, OwnStep DEF Asking
<1> QED BY <1>1, <1>2, <1>3, <1>4

(* What a handler gathers for its answer *)
LEMMA GetKeeps ==
  ASSUME IInv, NEW t \in Thread, Get(t) \/ Active(t) \/ Store(t)
  PROVE  IInv'
<1>0. UNCHANGED <<gw, told, client, cache, aborts, owed>>
  BY DEF Get, Active, Store, Unmoved, gateways, requests, registry
<1>1. CASE Get(t)
  <2> DEFINE h == [hand[t] EXCEPT
                    !.pc = IF At(t) \in Core THEN "store" ELSE "find",
                    !.data = FilledFrom(@, At(t)),
                    !.ask = At(t) \in Core /\ cache[At(t)] = {}]
  <2>1. Go(t, h) /\ hand[t].pc = "get"
    BY <1>1 DEF Get
  <2>2. DOMAIN h = Fields /\ h.msg = hand[t].msg /\ h.pc \in {"store", "find"}
    BY Shape DEF Fields
  <2> HIDE DEF h
  <2> QED BY <1>0, <2>1, <2>2, OwnStep DEF Asking
<1>2. CASE Active(t)
  <2> DEFINE h == [hand[t] EXCEPT !.pc = "load", !.active = ActiveRules(At(t))]
  <2>1. Go(t, h) /\ hand[t].pc = "active"
    BY <1>2 DEF Active
  <2>2. DOMAIN h = Fields /\ h.msg = hand[t].msg /\ h.pc = "load"
    BY Shape DEF Fields
  <2> HIDE DEF h
  <2> QED BY <1>0, <2>1, <2>2, OwnStep DEF Asking
<1>3. CASE Store(t)
  <2> DEFINE next == IF hand[t].code # 2001
                     THEN AfterLoad(Type[hand[t].msg], hand[t].actions)
                     ELSE IF Type[hand[t].msg] = "UPDATE"
                              /\ "OPERATE_RULE" \in hand[t].actions
                     THEN "active" ELSE "load"
              h == [hand[t] EXCEPT !.pc = next]
  <2>1. Go(t, h) /\ hand[t].pc = "store"
    BY <1>3 DEF Store, Then
  <2>2. next \notin {"linked", "ending", "remove"}
    BY DEF AfterLoad, AfterCacheUpdate
  <2>3. DOMAIN h = Fields /\ h.msg = hand[t].msg /\ h.pc = next
    BY Shape DEF Fields
  <2> HIDE DEF h, next
  <2> QED BY <1>0, <2>1, <2>2, <2>3, OwnStep DEF Asking
<1> QED BY <1>1, <1>2, <1>3

LEMMA LoadedKeeps ==
  ASSUME IInv, NEW t \in Thread, hand[t].pc = "load",
         NEW g, DOMAIN g = Fields, g.msg = hand[t].msg, Loaded(t, g),
         UNCHANGED <<gw, told, client, cache, aborts, owed>>
  PROVE  IInv'
<1> DEFINE next == AfterLoad(Type[g.msg], g.actions)
           h == [g EXCEPT !.pc = next]
<1>1. Go(t, h)
  BY DEF Loaded
<1>2. next \notin {"linked", "ending", "remove"}
  BY DEF AfterLoad, AfterCacheUpdate
<1>3. DOMAIN h = Fields /\ h.msg = hand[t].msg /\ h.pc = next
  BY DEF Fields
<1> HIDE DEF h, next
<1> QED BY <1>1, <1>2, <1>3, OwnStep DEF Asking

LEMMA GatheredShape ==
  ASSUME NEW t \in Thread, DOMAIN hand[t] = Fields, NEW names, NEW asked
  PROVE  /\ DOMAIN Gathered(t, names, asked) = Fields
         /\ Gathered(t, names, asked).msg = hand[t].msg
BY DEF Gathered, Fields

LEMMA DefaultsShape ==
  ASSUME NEW t \in Thread, DOMAIN hand[t] = Fields
  PROVE  DOMAIN Defaults(t) = Fields /\ Defaults(t).msg = hand[t].msg
BY DEF Defaults, Fields

LEMMA LoadKeeps ==
  ASSUME IInv, NEW t \in Thread, Load(t)
  PROVE  IInv'
<1>0. UNCHANGED <<gw, told, client, cache, aborts, owed>> /\ hand[t].pc = "load"
  BY DEF Load, gateways, registry
<1>1. CASE \E names, asked : Loaded(t, Gathered(t, names, asked))
  <2>1. PICK names, asked : Loaded(t, Gathered(t, names, asked))
    BY <1>1
  <2> QED BY <1>0, <2>1, GatheredShape, Shape, LoadedKeeps
<1>2. CASE Loaded(t, Defaults(t))
  BY <1>0, <1>2, DefaultsShape, Shape, LoadedKeeps
<1>3. \/ \E names, asked : Loaded(t, Gathered(t, names, asked))
      \/ Loaded(t, Defaults(t))
  BY DEF Load
<1> QED BY <1>1, <1>2, <1>3

-----------------------------------------------------------------------------
(* A location of the subscriber for Procera, then the answer *)
LEMMA ProceraKeeps ==
  ASSUME IInv, NEW t \in Thread,
         \/ \E served \in BOOLEAN : ListProcera(t, served)
         \/ \E p \in Session, served \in BOOLEAN : ChangeUli(t, p, served)
  PROVE  IInv'
<1>1. CASE \E served \in BOOLEAN : ListProcera(t, served)
  <2>1. PICK served : ListProcera(t, served)
    BY <1>1
  <2> DEFINE listed == IF served THEN ProceraRows(At(t)) ELSE {}
             h == [hand[t] EXCEPT
                    !.pc = IF listed = {} THEN "rules" ELSE "rar",
                    !.todo = listed]
  <2>2. Go(t, h) /\ hand[t].pc = "uli"
    BY <2>1 DEF ListProcera
  <2>3. /\ DOMAIN h = Fields /\ h.msg = hand[t].msg /\ h.ask = hand[t].ask
        /\ h.pc \in {"rules", "rar"}
    BY Shape DEF Fields
  <2>4. UNCHANGED <<gw, told, client, cache, aborts, owed>>
    BY <2>1 DEF ListProcera, Unmoved, gateways, requests, registry
  <2> HIDE DEF h
  <2> QED BY <2>2, <2>3, <2>4, OwnStep DEF Asking
<1>2. CASE \E p \in Session, served \in BOOLEAN : ChangeUli(t, p, served)
  <2>1. PICK p, served : ChangeUli(t, p, served)
    BY <1>2
  <2> DEFINE left == IF served THEN hand[t].todo \ {p} ELSE {}
             old == hand[t].old \o PlaceRules(p)
             h == [hand[t] EXCEPT
                    !.todo = left, !.pc = IF left = {} THEN "rules" ELSE @,
                    !.old = IF left = {} THEN <<>> ELSE old]
  <2>2. Go(t, h) /\ hand[t].pc = "rar"
    BY <2>1 DEF ChangeUli
  <2>3. /\ DOMAIN h = Fields /\ h.msg = hand[t].msg /\ h.ask = hand[t].ask
        /\ h.pc \in {"rules", "rar"}
    BY <2>2, Shape DEF Fields
  <2>4. UNCHANGED <<gw, told, client, cache, aborts, owed>>
    BY <2>1 DEF ChangeUli, ReAuth, gateways, requests, registry
  <2> HIDE DEF h
  <2> QED BY <2>2, <2>3, <2>4, OwnStep DEF Asking
<1> QED BY <1>1, <1>2

LEMMA RulesKeep ==
  ASSUME IInv, NEW t \in Thread, Rules(t)
  PROVE  IInv'
<1> DEFINE h == [Idle EXCEPT
                  !.pc = "send", !.msg = hand[t].msg, !.code = hand[t].code,
                  !.ask = hand[t].ask, !.rules = hand[t].rules,
                  !.answer = <<AVP("Result-Code", hand[t].code)>>
                               \o AnswerRules(t) \o AnswerTail(t)]
<1>1. Go(t, h) /\ hand[t].pc = "rules"
  BY DEF Rules
<1>2. /\ DOMAIN h = Fields /\ h.msg = hand[t].msg /\ h.ask = hand[t].ask
      /\ h.pc = "send"
  BY IdleShape DEF Fields
<1>3. UNCHANGED <<gw, told, client, cache, aborts, owed>>
  BY DEF Rules, gateways, requests, registry
<1> HIDE DEF h
<1> QED BY <1>1, <1>2, <1>3, OwnStep DEF Asking

LEMMA SendKeeps ==
  ASSUME IInv, NEW t \in Thread, Send(t)
  PROVE  IInv'
<1>0. /\ Go(t, Idle) /\ hand[t].pc = "send"
      /\ UNCHANGED <<told, cache, client, owed>>
  BY DEF Send, registry
<1>1. gw' \in [Session -> Gateway]
      /\ \A s \in Session : gw[s] = "closed" => gw'[s] = "closed"
  <2>1. gw \in [Session -> Gateway] /\ At(t) \in Session
    BY <1>0, Shape DEF IInv, ShapeInv
  <2> DEFINE opens == gw[At(t)] = "opening" /\ Type[hand[t].msg] = "INITIAL"
             to == IF ~opens THEN gw[At(t)]
                   ELSE IF hand[t].code = 2001 THEN "open" ELSE "new"
  <2>2. gw' = [gw EXCEPT ![At(t)] = to]
    BY DEF Send
  <2>3. to \in Gateway /\ (gw[At(t)] = "closed" => to = "closed")
    BY <2>1 DEF Gateway
  <2> HIDE DEF to
  <2> QED BY <2>1, <2>2, <2>3
<1>2. aborts' = aborts \cup (IF hand[t].ask THEN {At(t)} ELSE {})
  BY DEF Send
<1>3. DOMAIN cache' = Session
  BY <1>0 DEF IInv, ShapeInv
<1> QED BY <1>0, <1>1, <1>2, <1>3, IdleShape, HandlerStep DEF Go, Asking

LEMMA NullConnectionKeeps ==
  ASSUME IInv, NEW t \in Thread, NullConnection(t)
  PROVE  IInv'
<1>1. UNCHANGED <<gw, told, cache, aborts, hand, client, owed>>
  BY DEF NullConnection, gateways, registry, requests
<1> QED BY <1>1 DEF IInv, ShapeInv, EndInv, OwedInv, Asks, Asking, Visits, At

-----------------------------------------------------------------------------
(* The end of a session: what it has to be told of is Procera's, and it is *)
(* removed when it is closed.                                              *)
LEMMA LinkedKeeps ==
  ASSUME IInv, NEW t \in Thread,
         \/ Linked(t)
         \/ \E c \in Session, served \in BOOLEAN : EndChild(t, c, served)
  PROVE  IInv'
<1>1. CASE Linked(t)
  <2> DEFINE h == [hand[t] EXCEPT
                    !.pc = IF Children(At(t)) = {} THEN "remove" ELSE "ending",
                    !.todo = Children(At(t))]
  <2>1. Go(t, h) /\ hand[t].pc = "linked"
    BY <1>1 DEF Linked
  <2>2. /\ DOMAIN h = Fields /\ h.msg = hand[t].msg
        /\ h.pc \in {"remove", "ending"}
    BY Shape DEF Fields
  <2>3. UNCHANGED <<gw, told, client, cache, aborts>>
    BY <1>1 DEF Linked, Unmoved, gateways, requests, registry
  <2>4. owed' \cap Core \subseteq owed
    BY <1>1, ToldAreProcera, Different DEF Linked
  <2> HIDE DEF h
  <2> QED BY <2>1, <2>2, <2>3, <2>4, OwnStep DEF Asking
<1>2. CASE \E c \in Session, served \in BOOLEAN : EndChild(t, c, served)
  <2>1. PICK c, served : EndChild(t, c, served)
    BY <1>2
  <2> DEFINE left == hand[t].todo \ {c}
             dialect == IF hand[t].dialect # {} THEN hand[t].dialect
                        ELSE {DialectOf[c]}
             h == [hand[t] EXCEPT
                    !.todo = left, !.pc = IF left = {} THEN "remove" ELSE @,
                    !.dialect = IF left = {} THEN {}
                                ELSE IF cache[c] = {} THEN @ ELSE dialect]
  <2>2. Go(t, h) /\ hand[t].pc = "ending"
    BY <2>1 DEF EndChild
  <2>3. /\ DOMAIN h = Fields /\ h.msg = hand[t].msg
        /\ h.pc \in {"remove", "ending"}
    BY <2>2, Shape DEF Fields
  <2>4. /\ UNCHANGED <<gw, told, client, cache>> /\ aborts \subseteq aborts'
        /\ owed' \subseteq owed
    BY <2>1 DEF EndChild, gateways, registry
  <2> HIDE DEF h
  <2> QED BY <2>2, <2>3, <2>4, OwnStep DEF Asking
<1> QED BY <1>1, <1>2

LEMMA EndKeeps ==
  ASSUME IInv, NEW t \in Thread, End(t)
  PROVE  IInv'
<1> DEFINE h == [hand[t] EXCEPT !.pc = "store"]
<1>1. /\ hand' = [hand EXCEPT ![t] = h] /\ hand[t].pc = "remove"
      /\ cache' = [cache EXCEPT ![At(t)] = {}]
      /\ UNCHANGED <<gw, told, aborts, client, owed>>
  BY DEF End, Then, Go, RemoveSession, gateways, requests
<1>2. DOMAIN h = Fields /\ h.msg = hand[t].msg /\ h.pc = "store"
  BY Shape DEF Fields
<1>3. h.msg \in DOMAIN Message /\ At(t) \in Session /\ gw[At(t)] = "closed"
  BY <1>1, <1>2, Shape DEF IInv, EndInv
<1>4. /\ DOMAIN cache' = Session /\ gw' \in [Session -> Gateway]
      /\ \A s \in Session : cache[s] # {} => cache'[s] # {} \/ gw[s] = "closed"
  BY <1>1, <1>3 DEF IInv, ShapeInv
<1> HIDE DEF h
<1> QED BY <1>1, <1>2, <1>3, <1>4, HandlerStep DEF Asking

-----------------------------------------------------------------------------
(* A session is cached: no record of another one goes. *)
LEMMA InsertSessionKeeps ==
  ASSUME IInv, NEW s \in Session, NEW data, NEW p, InsertSession(s, data, p)
  PROVE  /\ DOMAIN cache' = Session
         /\ cache'[s] # {}
         /\ \A c \in Session : cache[c] # {} => cache'[c] # {}
<1>0. DOMAIN cache = Session
  BY DEF IInv, ShapeInv
<1>1. CASE cache[s] = {}
  <2>1. cache' = [cache EXCEPT ![s] = {data}]
    BY <1>1 DEF InsertSession
  <2> QED BY <1>0, <2>1
<1>2. CASE cache[s] # {}
  <2>1. cache' = [c \in Session |->
                    IF c = s THEN {data}
                    ELSE IF parent[c] = s
                    THEN {Updated(d, data) : d \in cache[c]}
                    ELSE cache[c]]
    BY <1>2 DEF InsertSession
  <2>2. ASSUME NEW c \in Session, cache[c] # {}
        PROVE  {Updated(d, data) : d \in cache[c]} # {}
    <3>1. PICK d : d \in cache[c]
      BY <2>2
    <3>2. Updated(d, data) \in {Updated(e, data) : e \in cache[c]}
      BY <3>1
    <3> QED BY <3>2
  <2> QED BY <2>1, <2>2
<1> QED BY <1>1, <1>2

LEMMA InsertKeeps ==
  ASSUME IInv, NEW t \in Thread, Insert(t) \/ CacheUpdate(t)
  PROVE  IInv'
<1> DEFINE next == IF hand[t].pc = "insert" THEN "store"
                   ELSE AfterCacheUpdate(hand[t].actions)
           h == [hand[t] EXCEPT !.pc = next]
<1>1. /\ hand' = [hand EXCEPT ![t] = h]
      /\ hand[t].pc \in {"insert", "update"}
      /\ InsertSession(At(t), hand[t].data, hand[t].core)
      /\ UNCHANGED <<gw, told, aborts, client>>
  BY DEF Insert, CacheUpdate, Then, Go, Unmoved, gateways, requests
<1>2. /\ next \in {"store", "uli", "rules"}
      /\ hand[t].pc = "update" => next \in {"uli", "rules"}
  BY DEF AfterCacheUpdate
<1>3. /\ DOMAIN h = Fields /\ h.msg = hand[t].msg /\ h.ask = hand[t].ask
      /\ h.pc = next
  BY Shape DEF Fields
<1>4. \/ owed' = owed
      \/ /\ hand[t].pc = "update"
         /\ owed' = owed \cup (IF hand[t].ask THEN {At(t)} ELSE {})
  BY DEF Insert, CacheUpdate
<1>5. At(t) \in Session /\ h.msg \in DOMAIN Message
  BY <1>1, <1>3, Shape
<1>6. /\ DOMAIN cache' = Session /\ cache'[At(t)] # {}
      /\ \A c \in Session : cache[c] # {} => cache'[c] # {}
  BY <1>1, <1>5, InsertSessionKeeps
<1>7. gw' \in [Session -> Gateway]
  BY <1>1 DEF IInv, ShapeInv
<1> HIDE DEF h, next
<1>8. \A s \in owed' \cap Core :
        s \in owed \/ (cache'[s] # {} /\ Asking(h) /\ SessionOf[h.msg] = s)
  BY <1>2, <1>3, <1>4, <1>6 DEF Asking, At
<1> QED BY <1>1, <1>2, <1>3, <1>5, <1>6, <1>7, <1>8, HandlerStep DEF Asking

-----------------------------------------------------------------------------
(* A request comes: only one that ends a session goes where it is ended. *)
LEMMA ReceiveKeeps ==
  ASSUME IInv, NEW t \in Thread, NEW m \in DOMAIN Message, NEW conn,
         Receive(t, m, conn)
  PROVE  IInv'
<1> DEFINE s == SessionOf[m]
           to == IF Type[m] = "INITIAL" THEN "opening"
                 ELSE IF Type[m] = "UPDATE" THEN gw[s] ELSE "closed"
<1>1. PICK h : /\ hand' = [hand EXCEPT ![t] = h] /\ DOMAIN h = Fields
               /\ h.msg = m /\ h.pc = FirstStep(DialectOf[s], Type[m])
               /\ h.ask = FALSE
  <2> DEFINE core == DialectOf[s] \in CoreDialect
             busy == NeedsDatabase(m) /\ ~conn /\ ~(core /\ Type[m] = "UPDATE")
             g == [Idle EXCEPT
                    !.pc = FirstStep(DialectOf[s], Type[m]), !.msg = m,
                    !.conn = conn, !.code = IF busy THEN 3004 ELSE 2001,
                    !.actions = Actions[m],
                    !.data = [DataOf[m] EXCEPT !.owner =
                      Type[m] = "INITIAL" /\ DialectOf[s] # "Procera"]]
  <2>1. Go(t, g)
    BY DEF Receive
  <2>2. /\ DOMAIN g = Fields /\ g.msg = m
        /\ g.pc = FirstStep(DialectOf[s], Type[m]) /\ g.ask = FALSE
    BY DEF Idle, Fields
  <2> HIDE DEF g
  <2> QED BY <2>1, <2>2 DEF Go
<1>2. /\ gw' = [gw EXCEPT ![s] = to] /\ CanSend(s, Type[m])
      /\ hand[t].pc = "idle"
      /\ UNCHANGED <<told, cache, aborts, client, owed>>
  BY DEF Receive, registry, requests
<1>3. /\ s \in Session /\ gw \in [Session -> Gateway] /\ DOMAIN cache = Session
      /\ Type[m] \in {"INITIAL", "UPDATE", "TERMINATION"}
  BY MessageAssumption DEF IInv, ShapeInv
<1>4. h.pc \in {"linked", "ending", "remove"} => to = "closed"
  BY <1>1, <1>3 DEF FirstStep
<1>5. to \in Gateway /\ (gw[s] = "closed" => to = "closed")
  BY <1>2, <1>3 DEF CanSend, Gateway
<1> HIDE DEF to
<1>6. /\ gw' \in [Session -> Gateway] /\ gw'[s] = to
      /\ \A c \in Session : gw[c] = "closed" => gw'[c] = "closed"
  BY <1>2, <1>3, <1>5
<1> QED BY <1>1, <1>2, <1>3, <1>4, <1>6, HandlerStep DEF Asking

-----------------------------------------------------------------------------
(* What the thread of the refresh queue may do *)
LEMMA ClientStep ==
  ASSUME IInv, UNCHANGED <<gw, cache, hand, owed>>, told \subseteq told',
         DOMAIN client' = ClientFields,
         \A s \in Session :
           (s \in aborts \/ Visits(s)) =>
             s \in aborts' \/ Visits(s)' \/ s \in told' \/ cache[s] = {}
  PROVE  IInv'
<1>1. ShapeInv' /\ EndInv'
  BY DEF IInv, ShapeInv, EndInv, At
<1>2. OwedInv'
  <2> SUFFICES ASSUME NEW s \in owed \cap Core
               PROVE  \/ gw'[s] = "closed"
                      \/ s \in told'
                      \/ cache'[s] # {} /\ (s \in aborts' \/ Visits(s)' \/ Asks(s)')
    BY DEF OwedInv
  <2>1. s \in Session
    BY DEF Core
  <2>2. Asks(s)' = Asks(s)
    BY DEF Asks, At
  <2>3. \/ gw[s] = "closed"
        \/ s \in told
        \/ cache[s] # {} /\ (s \in aborts \/ Visits(s) \/ Asks(s))
    BY DEF IInv, OwedInv
  <2> QED BY <2>1, <2>2, <2>3
<1> QED BY <1>1, <1>2 DEF IInv

LEMMA TakeKeeps ==
  ASSUME IInv, TakeRefresh \/ \E s \in Session : TakeAbort(s)
  PROVE  IInv'
<1>1. CASE TakeRefresh
  <2>1. /\ client.pc = "idle"
        /\ UNCHANGED <<gw, cache, hand, owed, told, aborts>>
    BY <1>1 DEF TakeRefresh, gateways, registry
  <2>2. DOMAIN client' = ClientFields
    BY <1>1, IdleShape DEF TakeRefresh
  <2> QED BY <2>1, <2>2, ClientStep DEF Visits
<1>2. CASE \E s \in Session : TakeAbort(s)
  <2>1. PICK s \in Session : TakeAbort(s)
    BY <1>2
  <2>2. /\ client.pc = "idle" /\ aborts' = aborts \ {s}
        /\ client' = [Resting EXCEPT !.pc = "next", !.abort = TRUE, !.todo = {s}]
        /\ UNCHANGED <<gw, cache, hand, owed, told>>
    BY <2>1 DEF TakeAbort, gateways, registry
  <2>3. /\ DOMAIN client' = ClientFields /\ client'.pc = "next"
        /\ client'.abort /\ client'.todo = {s}
    BY <2>2 DEF Resting, ClientFields
  <2> QED BY <2>2, <2>3, ClientStep DEF Visits
<1> QED BY <1>1, <1>2

LEMMA PastShape ==
  ASSUME IInv, NEW s
  PROVE  /\ DOMAIN Past(s) = ClientFields
         /\ \A c \in client.todo :
              c # s => /\ c \in Past(s).todo /\ Past(s).pc = "next"
                       /\ Past(s).abort = client.abort
<1>1. DOMAIN client = ClientFields
  BY DEF IInv, ShapeInv
<1>2. CASE client.todo = {s}
  BY <1>2, IdleShape DEF Past
<1>3. CASE client.todo # {s}
  <2> DEFINE g == [client EXCEPT !.pc = "next", !.todo = @ \ {s},
                                 !.at = NoSession, !.rules = <<>>,
                                 !.active = <<>>]
  <2>1. Past(s) = g
    BY <1>3 DEF Past
  <2>2. /\ DOMAIN g = ClientFields /\ g.pc = "next"
        /\ g.todo = client.todo \ {s} /\ g.abort = client.abort
    BY <1>1 DEF ClientFields
  <2> HIDE DEF g
  <2> QED BY <2>1, <2>2
<1> QED BY <1>2, <1>3

LEMMA VisitKeeps ==
  ASSUME IInv, NEW s \in Session, Visit(s)
  PROVE  IInv'
<1>1. /\ client.pc = "next" /\ s \in client.todo
      /\ UNCHANGED <<cache, hand, owed, aborts>>
  BY DEF Visit, registry, requests
<1>2. CASE cache[s] = {}
  <2>1. client' = Past(s) /\ UNCHANGED <<gw, told>>
    BY <1>2 DEF Visit, Skip, gateways
  <2> QED BY <1>1, <1>2, <2>1, PastShape, ClientStep DEF Visits
<1>3. CASE cache[s] # {} /\ client.abort
  <2>1. client' = Past(s) /\ told' = told \cup {s} /\ UNCHANGED gw
    BY <1>3 DEF Visit, Release
  <2> QED BY <1>1, <2>1, PastShape, ClientStep DEF Visits
<1>4. CASE cache[s] # {} /\ ~client.abort
  <2>1. PICK names : Compare(s, names)
    BY <1>4 DEF Visit
  <2>2. /\ UNCHANGED gw /\ told \subseteq told'
        /\ DOMAIN client' = ClientFields
    <3>1. CASE Release(s) \/ Skip(s)
      BY <3>1, PastShape DEF Release, Skip, gateways
    <3>2. CASE ~(Release(s) \/ Skip(s))
      <4>1. \E r, a, k : client' = [client EXCEPT !.pc = "send", !.at = s,
                                      !.keys = k, !.rules = r, !.active = a]
        BY <2>1, <3>2 DEF Compare
      <4>2. UNCHANGED <<gw, told>>
        BY <2>1, <3>2 DEF Compare, gateways
      <4> QED BY <4>1, <4>2 DEF IInv, ShapeInv, ClientFields
    <3> QED BY <3>1, <3>2
  <2> QED BY <1>1, <1>4, <2>2, ClientStep DEF Visits
<1> QED BY <1>2, <1>3, <1>4

LEMMA RefreshKeeps ==
  ASSUME IInv, Refresh
  PROVE  IInv'
<1>1. /\ client.pc = "send" /\ client' = Past(client.at)
      /\ UNCHANGED <<gw, told, cache, hand, owed, aborts>>
  BY DEF Refresh, ReAuth, registry, requests
<1> QED BY <1>1, PastShape, ClientStep DEF Visits

(* An answer that a gateway does not know its session: the session is      *)
(* removed, and nothing is owed to it any more.                            *)
LEMMA RaaKeeps ==
  ASSUME IInv, NEW s \in Session, Raa(s)
  PROVE  IInv'
<1>1. /\ cache' = [cache EXCEPT ![s] = {}] /\ owed' = owed \ {s}
      /\ UNCHANGED <<gw, told, hand, client, aborts>>
  BY DEF Raa, RemoveSession, requests
<1>2. ShapeInv' /\ EndInv'
  BY <1>1 DEF IInv, ShapeInv, EndInv, At
<1>3. OwedInv'
  <2> SUFFICES ASSUME NEW c \in owed' \cap Core
               PROVE  \/ gw'[c] = "closed"
                      \/ c \in told'
                      \/ cache'[c] # {} /\ (c \in aborts' \/ Visits(c)' \/ Asks(c)')
    BY DEF OwedInv
  <2>1. c \in owed \cap Core /\ c # s /\ c \in Session
    BY <1>1 DEF Core
  <2>2. cache'[c] = cache[c]
    BY <1>1, <2>1 DEF IInv, ShapeInv
  <2>3. Asks(c)' = Asks(c) /\ Visits(c)' = Visits(c)
    BY <1>1 DEF Asks, At, Visits
  <2>4. \/ gw[c] = "closed"
        \/ c \in told
        \/ cache[c] # {} /\ (c \in aborts \/ Visits(c) \/ Asks(c))
    BY <2>1 DEF IInv, OwedInv
  <2> QED BY <1>1, <2>2, <2>3, <2>4
<1> QED BY <1>2, <1>3 DEF IInv

LEMMA OthersKeep ==
  ASSUME IInv,
         \/ \E s \in Session : Apply(s)
         \/ \E p \in DOMAIN Profiles : ChangeProfile(p)
         \/ UNCHANGED vars
  PROVE  IInv'
<1>1. UNCHANGED <<gw, told, cache, aborts, hand, client, owed>>
  BY DEF Apply, ChangeProfile, vars, gateways, registry, requests
<1> QED BY <1>1 DEF IInv, ShapeInv, EndInv, OwedInv, Asks, Asking, Visits, At

-----------------------------------------------------------------------------
LEMMA Step == IInv /\ [Next]_vars => IInv'
<1> SUFFICES ASSUME IInv, [Next]_vars PROVE IInv'
  OBVIOUS
<1>1. ASSUME NEW t \in Thread, Handle(t) PROVE IInv'
  <2>1. CASE \E m \in DOMAIN Message, conn \in BOOLEAN : Receive(t, m, conn)
    BY <2>1, ReceiveKeeps
  <2>2. CASE Find(t) \/ Look(t) \/ Adopt(t)
    BY <2>2, FindKeeps
  <2>3. CASE Insert(t) \/ CacheUpdate(t)
    BY <2>3, InsertKeeps
  <2>4. CASE \/ Linked(t)
             \/ \E c \in Session, served \in BOOLEAN : EndChild(t, c, served)
    BY <2>4, LinkedKeeps
  <2>5. CASE End(t)
    BY <2>5, EndKeeps
  <2>6. CASE Get(t) \/ Active(t) \/ Store(t)
    BY <2>6, GetKeeps
  <2>7. CASE Load(t)
    BY <2>7, LoadKeeps
  <2>8. CASE NullConnection(t)
    BY <2>8, NullConnectionKeeps
  <2>9. CASE \/ \E served \in BOOLEAN : ListProcera(t, served)
             \/ \E p \in Session, served \in BOOLEAN : ChangeUli(t, p, served)
    BY <2>9, ProceraKeeps
  <2>10. CASE Rules(t)
    BY <2>10, RulesKeep
  <2>11. CASE Send(t)
    BY <2>11, SendKeeps
  <2> QED BY <1>1, <2>1, <2>2, <2>3, <2>4, <2>5, <2>6, <2>7, <2>8, <2>9,
             <2>10, <2>11 DEF Handle
<1>2. ASSUME NEW s \in Session, Raa(s) \/ TakeAbort(s) \/ Visit(s)
      PROVE  IInv'
  BY <1>2, RaaKeeps, TakeKeeps, VisitKeeps
<1>3. CASE TakeRefresh \/ Refresh
  BY <1>3, TakeKeeps, RefreshKeeps
<1>4. CASE \/ \E s \in Session : Apply(s)
           \/ \E p \in DOMAIN Profiles : ChangeProfile(p)
           \/ UNCHANGED vars
  BY <1>4, OthersKeep
<1> QED BY <1>1, <1>2, <1>3, <1>4 DEF Next

(* When nobody works on anything, nobody is about to name a session for    *)
(* the refresh queue, nothing waits there, and its thread has no session.  *)
LEMMA NothingWaits == IInv => StrangersAreTold
<1> SUFFICES ASSUME IInv, Quiet, NEW s \in owed \cap Core
             PROVE  s \in told \/ gw[s] = "closed"
  BY DEF StrangersAreTold
<1>1. ~Asks(s)
  BY DEF Quiet, Asks, Asking
<1>2. ~Visits(s) /\ s \notin aborts
  BY DEF Quiet, Visits
<1> QED BY <1>1, <1>2 DEF IInv, OwedInv

(* "If the session is not found we ask to end it" (pcrf_server.cpp): a     *)
(* session of a gateway whose update was cached without it being known is  *)
(* told to end before everybody comes to rest, however the handlers, the   *)
(* refresh thread and late answers interleave, for any number of threads,  *)
(* sessions, requests and rules.                                           *)
THEOREM StrangersAreToldHolds == Spec => []StrangersAreTold
<1>1. Init => IInv
  BY Initially
<1>2. IInv /\ [Next]_vars => IInv'
  BY Step
<1>3. IInv => StrangersAreTold
  BY NothingWaits
<1> QED BY <1>1, <1>2, <1>3, PTL DEF Spec

-----------------------------------------------------------------------------
(* The types.  They are inductive with the data of a handler, which is     *)
(* taken from the message, filled from the cache and cached again, and     *)
(* with the session whose rules the refresh thread is about to send.       *)
DataType(d) == "owner" \in DOMAIN d /\ d.owner \in BOOLEAN

HandType(h) ==
  /\ DOMAIN h = Fields
  /\ h.pc \in PC
  /\ h.msg \in DOMAIN Message \cup {0}
  /\ h.pc # "idle" => h.msg \in DOMAIN Message
  /\ h.todo \subseteq Session
  /\ h.core \in Core \cup {NoSession}
  /\ h.pc \in {"look", "fill"} => h.core \in Core
  /\ h.pc \notin {"idle", "send"} => DataType(h.data)

HandsType == DOMAIN hand = Thread /\ \A t \in Thread : HandType(hand[t])

ClientType ==
  /\ DOMAIN client = ClientFields
  /\ client.pc \in {"idle", "next", "send"}
  /\ client.todo \subseteq Session
  /\ client.pc = "send" => client.at \in Session

GatewayType ==
  /\ gw \in [Session -> Gateway]
  /\ told \subseteq Session
  /\ unknown \subseteq Session

RegistryType ==
  /\ DOMAIN cache = Session
  /\ \A s \in Session : \A d \in cache[s] : DataType(d)
  /\ order \in Seq(Core)
  /\ parent \in [Session -> Core \cup {NoSession}]

RestType ==
  /\ row \in [Session -> {"none", "live", "ended"}]
  /\ aborts \subseteq Session
  /\ refresh \in BOOLEAN
  /\ profile \in DOMAIN Profiles
  /\ alive \in BOOLEAN

TypeInv == HandsType /\ ClientType /\ GatewayType /\ RegistryType /\ RestType

LEMMA TypesInitially == Init => TypeInv
<1> SUFFICES ASSUME Init PROVE TypeInv
  OBVIOUS
<1>1. HandType(Idle)
  BY DEF HandType, Idle, Fields, PC
<1>2. HandsType
  BY <1>1 DEF Init, HandsType
<1>3. ClientType
  BY DEF Init, ClientType, Resting, ClientFields
<1>4. GatewayType
  BY DEF Init, GatewayType, Gateway
<1>5. RegistryType
  BY DEF Init, RegistryType
<1>6. RestType
  BY ProfileAssumption DEF Init, RestType
<1> QED BY <1>2, <1>3, <1>4, <1>5, <1>6 DEF TypeInv

(* A step of one handler *)
LEMMA HandsStep ==
  ASSUME TypeInv, NEW t \in Thread, NEW h, Go(t, h), HandType(h)
  PROVE  HandsType'
BY DEF TypeInv, HandsType, Go

(* A handler that goes on with its request and changes what is its own *)
LEMMA OwnTypes ==
  ASSUME TypeInv, NEW t \in Thread, NEW h, Go(t, h),
         hand[t].pc \notin {"idle", "send"},
         DOMAIN h = Fields, h.pc \in PC, h.msg = hand[t].msg,
         h.todo \subseteq Session, h.core \in Core \cup {NoSession},
         h.pc \in {"look", "fill"} => h.core \in Core,
         h.pc # "send" => DataType(h.data)
  PROVE  HandsType'
<1>1. HandType(h)
  BY DEF TypeInv, HandsType, HandType
<1> QED BY <1>1, HandsStep

LEMMA HandTypes ==
  ASSUME TypeInv, NEW t \in Thread
  PROVE  /\ DOMAIN hand[t] = Fields
         /\ hand[t].pc \in PC
         /\ hand[t].todo \subseteq Session
         /\ hand[t].core \in Core \cup {NoSession}
         /\ hand[t].pc \in {"look", "fill"} => hand[t].core \in Core
         /\ hand[t].pc \notin {"idle", "send"} => DataType(hand[t].data)
         /\ hand[t].pc # "idle" =>
              /\ hand[t].msg \in DOMAIN Message
              /\ At(t) \in Session
              /\ Type[hand[t].msg] \in {"INITIAL", "UPDATE", "TERMINATION"}
BY MessageAssumption DEF TypeInv, HandsType, HandType, At

(* The steps that leave the client, the gateways, the registry and the     *)
(* rest as they are                                                        *)
LEMMA OthersKeepTypes ==
  ASSUME TypeInv, HandsType',
         UNCHANGED <<client, gw, told, unknown, cache, order, parent, row,
                     aborts, profile, alive>>,
         refresh' \in BOOLEAN
  PROVE  TypeInv'
<1>1. ClientType' /\ GatewayType' /\ RegistryType' /\ RestType'
  BY DEF TypeInv, ClientType, GatewayType, RegistryType, RestType
<1> QED BY <1>1 DEF TypeInv

(* The data of a cached session fill those of a request.                   *)
LEMMA FilledType ==
  ASSUME TypeInv, NEW data, DataType(data), NEW s \in Session
  PROVE  DataType(FilledFrom(data, s))
<1>1. CASE cache[s] = {}
  BY <1>1 DEF FilledFrom
<1>2. CASE cache[s] # {}
  <2>1. The(cache[s]) \in cache[s]
    BY <1>2 DEF The
  <2>2. DataType(The(cache[s]))
    BY <1>2, <2>1 DEF TypeInv, RegistryType
  <2>3. Fill(data, The(cache[s])).owner = The(cache[s]).owner
    BY DEF Fill, DataType
  <2>4. "owner" \in DOMAIN Fill(data, The(cache[s]))
    BY DEF Fill, DataType
  <2> QED BY <1>2, <2>2, <2>3, <2>4 DEF FilledFrom, DataType
<1> QED BY <1>1, <1>2

-----------------------------------------------------------------------------
LEMMA NoCoreTypes ==
  ASSUME TypeInv, NEW t \in Thread, hand[t].pc \in {"find", "look"}, NoCore(t)
  PROVE  HandsType'
<1> DEFINE h == [hand[t] EXCEPT
                  !.pc = Inserts(hand[t].msg), !.core = NoSession,
                  !.code = IF DialectOf[At(t)] =
                              IF Type[hand[t].msg] = "INITIAL" THEN "Procera"
                                                               ELSE "SCE"
                           THEN 5030 ELSE @]
<1>1. Go(t, h)
  BY DEF NoCore
<1>2. /\ DOMAIN h = Fields /\ h.msg = hand[t].msg /\ h.pc \in {"insert", "store"}
      /\ h.core = NoSession /\ h.todo = hand[t].todo /\ h.data = hand[t].data
  BY HandTypes DEF Fields, Inserts
<1> HIDE DEF h
<1> QED BY <1>1, <1>2, HandTypes, OwnTypes DEF PC

LEMMA FindTypes ==
  ASSUME TypeInv, NEW t \in Thread, Find(t) \/ Look(t) \/ Adopt(t)
  PROVE  TypeInv'
<1>0. UNCHANGED <<client, gw, told, unknown, cache, order, parent, row, aborts,
                  refresh, profile, alive>>
  BY DEF Find, Look, Adopt, Unmoved, gateways, requests, registry, database,
         outside
<1>1. ASSUME NoCore(t) /\ (Find(t) \/ Look(t)) PROVE HandsType'
  BY <1>1, NoCoreTypes DEF Find, Look
<1>2. ASSUME Find(t) /\ ~NoCore(t) PROVE HandsType'
  <2> DEFINE h == [hand[t] EXCEPT !.pc = "look", !.core = Last(order)]
  <2>1. Go(t, h) /\ hand[t].pc = "find" /\ order # <<>>
    BY <1>2 DEF Find
  <2>2. Last(order) \in Core
    BY <2>1 DEF TypeInv, RegistryType, Last
  <2>3. /\ DOMAIN h = Fields /\ h.msg = hand[t].msg /\ h.pc = "look"
        /\ h.core = Last(order) /\ h.todo = hand[t].todo
        /\ h.data = hand[t].data
    BY HandTypes DEF Fields
  <2> HIDE DEF h
  <2> QED BY <2>1, <2>2, <2>3, HandTypes, OwnTypes DEF PC
<1>3. ASSUME Look(t) /\ ~NoCore(t) PROVE HandsType'
  <2> DEFINE h == [hand[t] EXCEPT !.pc = "fill"]
  <2>1. Go(t, h) /\ hand[t].pc = "look"
    BY <1>3 DEF Look, Then
  <2>2. /\ DOMAIN h = Fields /\ h.msg = hand[t].msg /\ h.pc = "fill"
        /\ h.core = hand[t].core /\ h.todo = hand[t].todo
        /\ h.data = hand[t].data
    BY HandTypes DEF Fields
  <2> HIDE DEF h
  <2> QED BY <2>1, <2>2, HandTypes, OwnTypes DEF PC
<1>4. ASSUME Adopt(t) PROVE HandsType'
  <2> DEFINE h == [hand[t] EXCEPT !.pc = Inserts(hand[t].msg),
                                  !.data = FilledFrom(@, hand[t].core)]
  <2>1. Go(t, h) /\ hand[t].pc = "fill"
    BY <1>4 DEF Adopt
  <2>2. /\ DOMAIN h = Fields /\ h.msg = hand[t].msg /\ h.pc \in {"insert", "store"}
        /\ h.core = hand[t].core /\ h.todo = hand[t].todo
        /\ h.data = FilledFrom(hand[t].data, hand[t].core)
    BY HandTypes DEF Fields, Inserts
  <2>3. DataType(h.data)
    BY <2>1, <2>2, HandTypes, FilledType DEF Core
  <2> HIDE DEF h
  <2> QED BY <2>1, <2>2, <2>3, HandTypes, OwnTypes DEF PC
<1>5. HandsType' /\ refresh' \in BOOLEAN
  BY <1>0, <1>1, <1>2, <1>3, <1>4 DEF TypeInv, RestType, Find, Look
<1> QED BY <1>0, <1>5, OthersKeepTypes

LEMMA GetTypes ==
  ASSUME TypeInv, NEW t \in Thread, Get(t) \/ Active(t) \/ Store(t)
  PROVE  TypeInv'
<1>0. UNCHANGED <<client, gw, told, unknown, cache, order, parent, row, aborts,
                  refresh, profile, alive>>
  BY DEF Get, Active, Store, Unmoved, gateways, requests, registry, database,
         outside
<1>1. ASSUME Get(t) PROVE HandsType'
  <2> DEFINE h == [hand[t] EXCEPT
                    !.pc = IF At(t) \in Core THEN "store" ELSE "find",
                    !.data = FilledFrom(@, At(t)),
                    !.ask = At(t) \in Core /\ cache[At(t)] = {}]
  <2>1. Go(t, h) /\ hand[t].pc = "get"
    BY <1>1 DEF Get
  <2>2. /\ DOMAIN h = Fields /\ h.msg = hand[t].msg /\ h.pc \in {"store", "find"}
        /\ h.core = hand[t].core /\ h.todo = hand[t].todo
        /\ h.data = FilledFrom(hand[t].data, At(t))
    BY HandTypes DEF Fields
  <2>3. DataType(h.data)
    BY <2>1, <2>2, HandTypes, FilledType
  <2> HIDE DEF h
  <2> QED BY <2>1, <2>2, <2>3, HandTypes, OwnTypes DEF PC
<1>2. ASSUME Active(t) PROVE HandsType'
  <2> DEFINE h == [hand[t] EXCEPT !.pc = "load", !.active = ActiveRules(At(t))]
  <2>1. Go(t, h) /\ hand[t].pc = "active"
    BY <1>2 DEF Active
  <2>2. /\ DOMAIN h = Fields /\ h.msg = hand[t].msg /\ h.pc = "load"
        /\ h.core = hand[t].core /\ h.todo = hand[t].todo
        /\ h.data = hand[t].data
    BY HandTypes DEF Fields
  <2> HIDE DEF h
  <2> QED BY <2>1, <2>2, HandTypes, OwnTypes DEF PC
<1>3. ASSUME Store(t) PROVE HandsType'
  <2> DEFINE next == IF hand[t].code # 2001
                     THEN AfterLoad(Type[hand[t].msg], hand[t].actions)
                     ELSE IF Type[hand[t].msg] = "UPDATE"
                              /\ "OPERATE_RULE" \in hand[t].actions
                     THEN "active" ELSE "load"
              h == [hand[t] EXCEPT !.pc = next]
  <2>1. Go(t, h) /\ hand[t].pc = "store"
    BY <1>3 DEF Store, Then
  <2>2. next \in PC \ {"look", "fill"}
    BY DEF AfterLoad, AfterCacheUpdate, PC
  <2>3. /\ DOMAIN h = Fields /\ h.msg = hand[t].msg /\ h.pc = next
        /\ h.core = hand[t].core /\ h.todo = hand[t].todo
        /\ h.data = hand[t].data
    BY HandTypes DEF Fields
  <2> HIDE DEF h, next
  <2> QED BY <2>1, <2>2, <2>3, HandTypes, OwnTypes
<1>4. HandsType' /\ refresh' \in BOOLEAN
  BY <1>0, <1>1, <1>2, <1>3 DEF TypeInv, RestType
<1> QED BY <1>0, <1>4, OthersKeepTypes

(* What is gathered for the answer leaves the session and its data alone. *)
LEMMA GatheredKept ==
  ASSUME TypeInv, NEW t \in Thread, NEW names, NEW asked,
         NEW g \in {Gathered(t, names, asked), Defaults(t)}
  PROVE  /\ DOMAIN g = Fields /\ g.msg = hand[t].msg
         /\ g.todo = hand[t].todo /\ g.core = hand[t].core
         /\ g.data = hand[t].data
<1>0. DOMAIN hand[t] = Fields
  BY HandTypes
<1>1. CASE g = Gathered(t, names, asked)
  BY <1>0, <1>1 DEF Gathered, Fields
<1>2. CASE g = Defaults(t)
  BY <1>0, <1>2 DEF Defaults, Fields
<1> QED BY <1>1, <1>2

LEMMA LoadTypes ==
  ASSUME TypeInv, NEW t \in Thread, Load(t)
  PROVE  TypeInv'
<1>0. /\ UNCHANGED <<client, gw, told, unknown, cache, order, parent, row,
                     aborts, profile, alive>>
      /\ hand[t].pc = "load"
  BY DEF Load, gateways, registry, database, outside
<1>1. PICK names, asked :
        \/ Loaded(t, Gathered(t, names, asked)) /\ UNCHANGED refresh
        \/ Loaded(t, Defaults(t)) /\ refresh' = (refresh \/ hand[t].data.owner)
  BY DEF Load
<1>2. PICK g \in {Gathered(t, names, asked), Defaults(t)} : Loaded(t, g)
  BY <1>1
<1> DEFINE next == AfterLoad(Type[g.msg], g.actions)
           h == [g EXCEPT !.pc = next]
<1>3. next \in PC \ {"look", "fill"}
  BY DEF AfterLoad, AfterCacheUpdate, PC
<1>4. /\ Go(t, h) /\ DOMAIN h = Fields /\ h.msg = hand[t].msg /\ h.pc = next
      /\ h.todo = hand[t].todo /\ h.core = hand[t].core /\ h.data = hand[t].data
  BY <1>2, GatheredKept DEF Loaded, Fields
<1> HIDE DEF h, next
<1>5. HandsType'
  BY <1>0, <1>3, <1>4, HandTypes, OwnTypes
<1>6. refresh' \in BOOLEAN
  <2>1. DataType(hand[t].data) /\ refresh \in BOOLEAN
    BY <1>0, HandTypes DEF TypeInv, RestType
  <2> QED BY <1>1, <2>1 DEF DataType
<1> QED BY <1>0, <1>5, <1>6, OthersKeepTypes

-----------------------------------------------------------------------------
LEMMA ReAuthTypes ==
  ASSUME TypeInv, NEW s \in Session, NEW avps, NEW t, ReAuth(s, avps, t)
  PROVE  GatewayType'
BY DEF TypeInv, GatewayType, ReAuth

LEMMA ProceraTypes ==
  ASSUME TypeInv, NEW t \in Thread,
         \/ \E served \in BOOLEAN : ListProcera(t, served)
         \/ \E p \in Session, served \in BOOLEAN : ChangeUli(t, p, served)
         \/ NullConnection(t)
  PROVE  TypeInv'
<1>1. CASE \E served \in BOOLEAN : ListProcera(t, served)
  <2>1. PICK served : ListProcera(t, served)
    BY <1>1
  <2> DEFINE listed == IF served THEN ProceraRows(At(t)) ELSE {}
             h == [hand[t] EXCEPT
                    !.pc = IF listed = {} THEN "rules" ELSE "rar",
                    !.todo = listed]
  <2>2. Go(t, h) /\ hand[t].pc = "uli"
    BY <2>1 DEF ListProcera
  <2>3. listed \subseteq Session
    BY DEF ProceraRows, Procera
  <2>4. /\ DOMAIN h = Fields /\ h.msg = hand[t].msg /\ h.pc \in {"rules", "rar"}
        /\ h.todo = listed /\ h.core = hand[t].core /\ h.data = hand[t].data
    BY HandTypes DEF Fields
  <2>5. UNCHANGED <<client, gw, told, unknown, cache, order, parent, row, aborts,
                    refresh, profile, alive>>
    BY <2>1 DEF ListProcera, Unmoved, gateways, requests, registry, database,
                outside
  <2> HIDE DEF h, listed
  <2>6. HandsType'
    BY <2>2, <2>3, <2>4, HandTypes, OwnTypes DEF PC
  <2> QED BY <2>5, <2>6, OthersKeepTypes DEF TypeInv, RestType
<1>2. CASE \E p \in Session, served \in BOOLEAN : ChangeUli(t, p, served)
  <2>1. PICK p \in Session, served \in BOOLEAN : ChangeUli(t, p, served)
    BY <1>2
  <2> DEFINE left == IF served THEN hand[t].todo \ {p} ELSE {}
             old == hand[t].old \o PlaceRules(p)
             h == [hand[t] EXCEPT
                    !.todo = left, !.pc = IF left = {} THEN "rules" ELSE @,
                    !.old = IF left = {} THEN <<>> ELSE old]
  <2>2. Go(t, h) /\ hand[t].pc = "rar"
    BY <2>1 DEF ChangeUli
  <2>3. /\ DOMAIN h = Fields /\ h.msg = hand[t].msg /\ h.pc \in {"rules", "rar"}
        /\ h.todo \subseteq hand[t].todo
        /\ h.core = hand[t].core /\ h.data = hand[t].data
    BY <2>2, HandTypes DEF Fields
  <2> HIDE DEF h
  <2>4. HandsType'
    BY <2>2, <2>3, HandTypes, OwnTypes DEF PC
  <2>5. GatewayType'
    <3>1. CASE served
      BY <2>1, <3>1, ReAuthTypes DEF ChangeUli
    <3>2. CASE ~served
      BY <2>1, <3>2 DEF ChangeUli, gateways, TypeInv, GatewayType
    <3> QED BY <3>1, <3>2
  <2>6. UNCHANGED <<client, cache, order, parent, row, aborts, refresh, profile,
                    alive>>
    BY <2>1 DEF ChangeUli, requests, registry, outside
  <2> QED BY <2>4, <2>5, <2>6 DEF TypeInv, ClientType, RegistryType, RestType
<1>3. CASE NullConnection(t)
  BY <1>3 DEF NullConnection, TypeInv, HandsType, ClientType, GatewayType,
              RegistryType, RestType, gateways, requests, registry, database,
              outside
<1> QED BY <1>1, <1>2, <1>3

LEMMA RulesTypes ==
  ASSUME TypeInv, NEW t \in Thread, Rules(t)
  PROVE  TypeInv'
<1> DEFINE h == [Idle EXCEPT
                  !.pc = "send", !.msg = hand[t].msg, !.code = hand[t].code,
                  !.ask = hand[t].ask, !.rules = hand[t].rules,
                  !.answer = <<AVP("Result-Code", hand[t].code)>>
                               \o AnswerRules(t) \o AnswerTail(t)]
<1>1. Go(t, h) /\ hand[t].pc = "rules"
  BY DEF Rules
<1>2. /\ DOMAIN h = Fields /\ h.msg = hand[t].msg /\ h.pc = "send"
      /\ h.todo = {} /\ h.core = NoSession
  BY DEF Fields, Idle
<1>3. UNCHANGED <<client, gw, told, unknown, cache, order, parent, row, aborts,
                  refresh, profile, alive>>
  BY DEF Rules, gateways, requests, registry, database, outside
<1> HIDE DEF h
<1>4. HandsType'
  BY <1>1, <1>2, HandTypes, OwnTypes DEF PC
<1> QED BY <1>3, <1>4, OthersKeepTypes DEF TypeInv, RestType

LEMMA SendTypes ==
  ASSUME TypeInv, NEW t \in Thread, Send(t)
  PROVE  TypeInv'
<1>1. /\ Go(t, Idle) /\ At(t) \in Session
      /\ UNCHANGED <<client, told, unknown, cache, order, parent, row, refresh,
                     profile, alive>>
  BY HandTypes DEF Send, registry, database, outside
<1>2. HandType(Idle)
  BY DEF HandType, Idle, Fields, PC
<1>3. HandsType'
  BY <1>1, <1>2, HandsStep
<1>4. gw' \in [Session -> Gateway]
  <2> DEFINE opens == gw[At(t)] = "opening" /\ Type[hand[t].msg] = "INITIAL"
             to == IF ~opens THEN gw[At(t)]
                   ELSE IF hand[t].code = 2001 THEN "open" ELSE "new"
  <2>1. gw' = [gw EXCEPT ![At(t)] = to] /\ gw \in [Session -> Gateway]
    BY DEF Send, TypeInv, GatewayType
  <2>2. to \in Gateway
    BY <1>1, <2>1 DEF Gateway
  <2> HIDE DEF to
  <2> QED BY <2>1, <2>2
<1>5. aborts' \subseteq Session
  <2>1. aborts' = aborts \cup (IF hand[t].ask THEN {At(t)} ELSE {})
    BY DEF Send
  <2> QED BY <1>1, <2>1 DEF TypeInv, RestType
<1> QED
  BY <1>1, <1>3, <1>4, <1>5 DEF TypeInv, ClientType, GatewayType, RegistryType,
                               RestType

-----------------------------------------------------------------------------
LEMMA LinkedTypes ==
  ASSUME TypeInv, NEW t \in Thread,
         \/ Linked(t)
         \/ \E c \in Session, served \in BOOLEAN : EndChild(t, c, served)
  PROVE  TypeInv'
<1>1. CASE Linked(t)
  <2> DEFINE h == [hand[t] EXCEPT
                    !.pc = IF Children(At(t)) = {} THEN "remove" ELSE "ending",
                    !.todo = Children(At(t))]
  <2>1. Go(t, h) /\ hand[t].pc = "linked"
    BY <1>1 DEF Linked
  <2>2. /\ DOMAIN h = Fields /\ h.msg = hand[t].msg
        /\ h.pc \in {"remove", "ending"} /\ h.todo = Children(At(t))
        /\ h.core = hand[t].core /\ h.data = hand[t].data
    BY HandTypes DEF Fields
  <2>3. UNCHANGED <<client, gw, told, unknown, cache, order, parent, row, aborts,
                    refresh, profile, alive>>
    BY <1>1 DEF Linked, Unmoved, gateways, requests, registry, database, outside
  <2> HIDE DEF h
  <2>4. HandsType'
    BY <2>1, <2>2, HandTypes, OwnTypes DEF PC, Children
  <2> QED BY <2>3, <2>4, OthersKeepTypes DEF TypeInv, RestType
<1>2. CASE \E c \in Session, served \in BOOLEAN : EndChild(t, c, served)
  <2>1. PICK c, served : EndChild(t, c, served)
    BY <1>2
  <2> DEFINE left == hand[t].todo \ {c}
             dialect == IF hand[t].dialect # {} THEN hand[t].dialect
                        ELSE {DialectOf[c]}
             h == [hand[t] EXCEPT
                    !.todo = left, !.pc = IF left = {} THEN "remove" ELSE @,
                    !.dialect = IF left = {} THEN {}
                                ELSE IF cache[c] = {} THEN @ ELSE dialect]
  <2>2. Go(t, h) /\ hand[t].pc = "ending"
    BY <2>1 DEF EndChild
  <2>3. /\ DOMAIN h = Fields /\ h.msg = hand[t].msg
        /\ h.pc \in {"remove", "ending"} /\ h.todo \subseteq hand[t].todo
        /\ h.core = hand[t].core /\ h.data = hand[t].data
    BY <2>2, HandTypes DEF Fields
  <2> HIDE DEF h
  <2>4. HandsType'
    BY <2>2, <2>3, HandTypes, OwnTypes DEF PC
  <2>5. UNCHANGED <<client, gw, told, unknown, cache, order, parent, row,
                    refresh, profile, alive>>
    BY <2>1 DEF EndChild, gateways, registry, database, outside
  <2>6. aborts' \subseteq Session
    <3>1. aborts' \subseteq aborts \cup ProceraRows(c)
      BY <2>1 DEF EndChild
    <3> QED BY <3>1 DEF ProceraRows, Procera, TypeInv, RestType
  <2> QED
    BY <2>4, <2>5, <2>6 DEF TypeInv, ClientType, GatewayType, RegistryType,
                            RestType
<1> QED BY <1>1, <1>2

LEMMA RemoveSessionTypes ==
  ASSUME TypeInv, NEW s \in Session, RemoveSession(s)
  PROVE  RegistryType'
<1> USE DEF TypeInv, RegistryType
<1>1. /\ cache' = [cache EXCEPT ![s] = {}]
      /\ order' = Without(order, s)
      /\ parent' = [c \in Session |->
                      IF s \in {c, parent[c]} THEN NoSession ELSE parent[c]]
  BY DEF RemoveSession
<1>2. DOMAIN cache' = Session /\ \A c \in Session : cache'[c] \subseteq cache[c]
  BY <1>1
<1>3. order' \in Seq(Core)
  BY <1>1, WithoutList
<1>4. parent' \in [Session -> Core \cup {NoSession}]
  BY <1>1
<1> QED BY <1>2, <1>3, <1>4

LEMMA EndTypes ==
  ASSUME TypeInv, NEW t \in Thread, End(t)
  PROVE  TypeInv'
<1> DEFINE h == [hand[t] EXCEPT !.pc = "store"]
<1>1. /\ Go(t, h) /\ hand[t].pc = "remove" /\ RemoveSession(At(t))
      /\ UNCHANGED <<client, gw, told, unknown, row, aborts, refresh, profile,
                     alive>>
  BY DEF End, Then, gateways, requests, database, outside
<1>2. /\ DOMAIN h = Fields /\ h.msg = hand[t].msg /\ h.pc = "store"
      /\ h.todo = hand[t].todo /\ h.core = hand[t].core /\ h.data = hand[t].data
  BY HandTypes DEF Fields
<1> HIDE DEF h
<1>3. HandsType'
  BY <1>1, <1>2, HandTypes, OwnTypes DEF PC
<1>4. RegistryType'
  BY <1>1, HandTypes, RemoveSessionTypes
<1> QED
  BY <1>1, <1>3, <1>4 DEF TypeInv, ClientType, GatewayType, RestType

LEMMA InsertSessionTypes ==
  ASSUME TypeInv, NEW s \in Session, NEW data, DataType(data),
         NEW p \in Core \cup {NoSession}, InsertSession(s, data, p)
  PROVE  RegistryType'
<1> USE DEF TypeInv, RegistryType
<1>1. CASE cache[s] = {}
  <2>1. /\ cache' = [cache EXCEPT ![s] = {data}]
        /\ order' = IF s \in Core THEN Append(order, s) ELSE order
        /\ parent' = IF p = NoSession THEN parent ELSE [parent EXCEPT ![s] = p]
    BY <1>1 DEF InsertSession
  <2>2. DOMAIN cache' = Session
    BY <2>1
  <2>3. \A c \in Session : \A d \in cache'[c] : DataType(d)
    BY <2>1
  <2>4. order' \in Seq(Core)
    BY <2>1, AppendedList
  <2> QED BY <2>1, <2>2, <2>3, <2>4
<1>2. CASE cache[s] # {}
  <2>1. /\ cache' = [c \in Session |->
                      IF c = s THEN {data}
                      ELSE IF parent[c] = s
                      THEN {Updated(d, data) : d \in cache[c]}
                      ELSE cache[c]]
        /\ UNCHANGED <<order, parent>>
    BY <1>2 DEF InsertSession
  <2>2. \A old : DataType(old) => DataType(Updated(old, data))
    BY DEF DataType, Updated
  <2>3. \A c \in Session : \A d \in cache'[c] : DataType(d)
    BY <2>1, <2>2
  <2> QED BY <2>1, <2>3
<1> QED BY <1>1, <1>2

LEMMA InsertTypes ==
  ASSUME TypeInv, NEW t \in Thread, Insert(t) \/ CacheUpdate(t)
  PROVE  TypeInv'
<1> DEFINE next == IF hand[t].pc = "insert" THEN "store"
                   ELSE AfterCacheUpdate(hand[t].actions)
           h == [hand[t] EXCEPT !.pc = next]
<1>1. /\ Go(t, h)
      /\ hand[t].pc \in {"insert", "update"}
      /\ InsertSession(At(t), hand[t].data, hand[t].core)
      /\ UNCHANGED <<client, gw, told, unknown, row, aborts, refresh, profile,
                     alive>>
  BY DEF Insert, CacheUpdate, Then, Unmoved, gateways, requests, database,
         outside
<1>2. next \in {"store", "uli", "rules"}
  BY DEF AfterCacheUpdate
<1>3. /\ DOMAIN h = Fields /\ h.msg = hand[t].msg /\ h.pc = next
      /\ h.todo = hand[t].todo /\ h.core = hand[t].core /\ h.data = hand[t].data
  BY HandTypes DEF Fields
<1> HIDE DEF h, next
<1>4. HandsType'
  BY <1>1, <1>2, <1>3, HandTypes, OwnTypes DEF PC
<1>5. RegistryType'
  BY <1>1, HandTypes, InsertSessionTypes
<1> QED
  BY <1>1, <1>4, <1>5 DEF TypeInv, ClientType, GatewayType, RestType

-----------------------------------------------------------------------------
LEMMA ReceiveTypes ==
  ASSUME TypeInv, NEW t \in Thread, NEW m \in DOMAIN Message, NEW conn,
         Receive(t, m, conn)
  PROVE  TypeInv'
<1> DEFINE s == SessionOf[m]
           core == DialectOf[s] \in CoreDialect
           busy == NeedsDatabase(m) /\ ~conn /\ ~(core /\ Type[m] = "UPDATE")
           data == [DataOf[m] EXCEPT !.owner =
                      Type[m] = "INITIAL" /\ DialectOf[s] # "Procera"]
           h == [Idle EXCEPT
                  !.pc = FirstStep(DialectOf[s], Type[m]), !.msg = m,
                  !.conn = conn, !.code = IF busy THEN 3004 ELSE 2001,
                  !.actions = Actions[m],
                  !.data = data]
           to == IF Type[m] = "INITIAL" THEN "opening"
                 ELSE IF Type[m] = "UPDATE" THEN gw[s] ELSE "closed"
<1>1. Go(t, h)
  BY DEF Receive
<1>2. /\ DOMAIN h = Fields /\ h.msg = m /\ h.pc = FirstStep(DialectOf[s], Type[m])
      /\ h.todo = {} /\ h.core = NoSession /\ h.data = data
  BY DEF Idle, Fields
<1>3. DataType(data)
  BY DEF DataType, DataOf
<1>4. FirstStep(DialectOf[s], Type[m]) \in PC \ {"look", "fill"}
  BY DEF FirstStep, PC
<1>5. s \in Session /\ gw \in [Session -> Gateway]
  BY MessageAssumption DEF TypeInv, GatewayType
<1>6. /\ gw' = [gw EXCEPT ![s] = to]
      /\ UNCHANGED <<client, told, unknown, cache, order, parent, row, aborts,
                     refresh, profile, alive>>
  BY DEF Receive, registry, requests, database, outside
<1>7. to \in Gateway
  BY <1>5 DEF Gateway
<1> HIDE DEF h, data, to
<1>8. HandsType'
  BY <1>1, <1>2, <1>3, <1>4, HandsStep DEF HandType
<1>9. gw' \in [Session -> Gateway]
  BY <1>5, <1>6, <1>7
<1> QED
  BY <1>6, <1>8, <1>9 DEF TypeInv, ClientType, GatewayType, RegistryType, RestType

-----------------------------------------------------------------------------
LEMMA PastTypes ==
  ASSUME TypeInv, NEW s
  PROVE  /\ DOMAIN Past(s) = ClientFields
         /\ Past(s).pc \in {"idle", "next"}
         /\ Past(s).todo \subseteq Session
<1>1. DOMAIN client = ClientFields /\ client.todo \subseteq Session
  BY DEF TypeInv, ClientType
<1>2. CASE client.todo = {s}
  BY <1>2 DEF Past, Resting, ClientFields
<1>3. CASE client.todo # {s}
  <2> DEFINE g == [client EXCEPT !.pc = "next", !.todo = @ \ {s},
                                 !.at = NoSession, !.rules = <<>>,
                                 !.active = <<>>]
  <2>1. Past(s) = g
    BY <1>3 DEF Past
  <2>2. DOMAIN g = ClientFields /\ g.pc = "next" /\ g.todo = client.todo \ {s}
    BY <1>1 DEF ClientFields
  <2> HIDE DEF g
  <2> QED BY <1>1, <2>1, <2>2
<1> QED BY <1>2, <1>3

LEMMA TakeTypes ==
  ASSUME TypeInv, TakeRefresh \/ \E s \in Session : TakeAbort(s)
  PROVE  TypeInv'
<1>1. /\ UNCHANGED <<hand, gw, told, unknown, cache, order, parent, row,
                     profile, alive>>
      /\ aborts' \subseteq aborts /\ refresh' \in BOOLEAN
  BY DEF TakeRefresh, TakeAbort, gateways, registry, database, outside, TypeInv,
         RestType
<1>2. ClientType'
  <2>1. ASSUME TakeRefresh PROVE ClientType'
    BY <2>1 DEF TakeRefresh, ClientType, Resting, ClientFields
  <2>2. ASSUME NEW s \in Session, TakeAbort(s) PROVE ClientType'
    BY <2>2 DEF TakeAbort, ClientType, Resting, ClientFields
  <2> QED BY <2>1, <2>2
<1> QED
  BY <1>1, <1>2 DEF TypeInv, HandsType, GatewayType, RegistryType, RestType

LEMMA VisitTypes ==
  ASSUME TypeInv, NEW s \in Session, Visit(s)
  PROVE  TypeInv'
<1>1. UNCHANGED <<hand, cache, order, parent, row, aborts, refresh, profile,
                  alive>>
  BY DEF Visit, registry, database, requests, outside
<1>2. ASSUME Release(s) \/ Skip(s) PROVE ClientType' /\ GatewayType'
  <2>1. client' = Past(s)
    BY <1>2 DEF Release, Skip
  <2>2. ClientType'
    BY <2>1, PastTypes DEF ClientType
  <2>3. GatewayType'
    BY <1>2 DEF Release, Skip, gateways, TypeInv, GatewayType
  <2> QED BY <2>2, <2>3
<1>3. ASSUME ~(Release(s) \/ Skip(s)) PROVE ClientType' /\ GatewayType'
  <2>1. PICK names : Compare(s, names)
    BY <1>3 DEF Visit
  <2>2. /\ \E r, a, k : client' = [client EXCEPT !.pc = "send", !.at = s,
                                     !.keys = k, !.rules = r, !.active = a]
        /\ UNCHANGED gateways
    BY <1>3, <2>1 DEF Compare
  <2>3. PICK r, a, k : client' = [client EXCEPT !.pc = "send", !.at = s,
                                    !.keys = k, !.rules = r, !.active = a]
    BY <2>2
  <2>4. /\ DOMAIN client' = ClientFields /\ client'.pc = "send"
        /\ client'.at = s /\ client'.todo = client.todo
    BY <2>3 DEF TypeInv, ClientType, ClientFields
  <2> QED BY <2>2, <2>4 DEF TypeInv, ClientType, GatewayType, gateways
<1>4. ClientType' /\ GatewayType'
  BY <1>2, <1>3
<1> QED BY <1>1, <1>4 DEF TypeInv, HandsType, RegistryType, RestType

LEMMA RefreshTypes ==
  ASSUME TypeInv, Refresh
  PROVE  TypeInv'
<1>1. /\ client' = Past(client.at) /\ client.at \in Session
      /\ UNCHANGED <<hand, cache, order, parent, row, aborts, refresh, profile,
                     alive>>
  BY DEF Refresh, registry, requests, outside, TypeInv, ClientType
<1>2. GatewayType'
  BY <1>1, ReAuthTypes DEF Refresh
<1>3. ClientType'
  BY <1>1, PastTypes DEF ClientType
<1> QED BY <1>1, <1>2, <1>3 DEF TypeInv, HandsType, RegistryType, RestType

LEMMA RaaTypes ==
  ASSUME TypeInv, NEW s \in Session, Raa(s)
  PROVE  TypeInv'
<1>1. /\ unknown' \subseteq unknown /\ RemoveSession(s)
      /\ UNCHANGED <<hand, client, gw, told, row, aborts, refresh, profile,
                     alive>>
  BY DEF Raa, requests, outside
<1>2. RegistryType'
  BY <1>1, RemoveSessionTypes
<1> QED BY <1>1, <1>2 DEF TypeInv, HandsType, ClientType, GatewayType, RestType

(* The database and another program *)
LEMMA OutsideTypes ==
  ASSUME TypeInv,
         \/ \E s \in Session : Apply(s)
         \/ \E p \in DOMAIN Profiles : ChangeProfile(p)
         \/ UNCHANGED vars
  PROVE  TypeInv'
<1>1. UNCHANGED <<hand, client, gw, told, unknown, cache, order, parent, aborts,
                  alive>>
  BY DEF Apply, ChangeProfile, vars, gateways, registry, requests
<1>2. row' \in [Session -> {"none", "live", "ended"}]
  <2>1. row \in [Session -> {"none", "live", "ended"}]
    BY DEF TypeInv, RestType
  <2>2. ASSUME NEW s \in Session, Apply(s)
        PROVE  row' \in [Session -> {"none", "live", "ended"}]
    <3> DEFINE q == Head(queue[s])
               to == IF q.row = "keep" \/ (row[s] = "none" /\ q.row # "insert")
                     THEN row[s]
                     ELSE IF q.row = "end" THEN "ended" ELSE "live"
    <3>1. row' = [row EXCEPT ![s] = to]
      BY <2>2 DEF Apply
    <3>2. to \in {"none", "live", "ended"}
      BY <2>1
    <3> HIDE DEF to
    <3> QED BY <2>1, <3>1, <3>2
  <2> QED BY <2>1, <2>2 DEF ChangeProfile, vars, database
<1>3. refresh' \in BOOLEAN /\ profile' \in DOMAIN Profiles
  BY DEF Apply, ChangeProfile, vars, requests, outside, TypeInv, RestType
<1> QED
  BY <1>1, <1>2, <1>3 DEF TypeInv, HandsType, ClientType, GatewayType,
                          RegistryType, RestType

LEMMA TypeStep == TypeInv /\ [Next]_vars => TypeInv'
<1> SUFFICES ASSUME TypeInv, [Next]_vars PROVE TypeInv'
  OBVIOUS
<1>1. ASSUME NEW t \in Thread, Handle(t) PROVE TypeInv'
  BY <1>1, ReceiveTypes, FindTypes, InsertTypes, LinkedTypes, EndTypes, GetTypes,
     LoadTypes, ProceraTypes, RulesTypes, SendTypes DEF Handle
<1>2. ASSUME NEW s \in Session, Raa(s) \/ TakeAbort(s) \/ Visit(s)
      PROVE  TypeInv'
  BY <1>2, RaaTypes, TakeTypes, VisitTypes
<1> QED
  BY <1>1, <1>2, TakeTypes, RefreshTypes, OutsideTypes DEF Next

THEOREM TypeInvariance == Spec => []TypeInv
BY TypesInitially, TypeStep, PTL DEF Spec

(* Every variable keeps its type, so the index of an address lists gateway *)
(* sessions, a parent is one, and every cached record names an owner.      *)
THEOREM TypeCorrect == Spec => []TypeOK
<1>1. TypeInv => TypeOK
  BY MessageAssumption
     DEF TypeInv, HandsType, HandType, ClientType, GatewayType, RegistryType,
         RestType, TypeOK, DataType, Gateway
<1> QED BY <1>1, TypeInvariance, PTL


-----------------------------------------------------------------------------
(* The end of a session.  Between the request that ends it and its removal *)
(* from the caches a handler is on the way to remove it.  Rules that a     *)
(* refresh or a change of location puts back after that come with a RAR,   *)
(* which its gateway does not know any more.                               *)
Over(s) == gw[s] = "closed" /\ s \notin raced

Gone(s) ==
  /\ cache[s] = {} /\ rulesOf[s] = {}
  /\ s \notin Range(order) /\ parent[s] = NoSession

Leaving == {"linked", "ending", "remove"}
Ending == Leaving \cup {"store", "load", "rules", "send"}

Removes(s) == \E t \in Thread : Handles(t, s) /\ hand[t].pc \in Leaving

ClosedInv ==
  /\ DOMAIN rulesOf = Session
  /\ \A s \in Session :
       Over(s) =>
         /\ \A t \in Thread :
              Handles(t, s) => /\ Type[hand[t].msg] = "TERMINATION"
                               /\ hand[t].pc \in Ending
         /\ Removes(s) \/ s \in unknown \/ Gone(s)

(* Handler t, and no other, goes on with the same request. *)
GoesOn(t, pcs) ==
  /\ \A u \in Thread \ {t} : hand'[u] = hand[u]
  /\ hand'[t].msg = hand[t].msg
  /\ hand'[t].pc \in pcs

LEMMA Going ==
  ASSUME TypeInv, NEW t \in Thread
  PROVE  /\ Find(t) \/ Look(t) \/ Adopt(t)
               => GoesOn(t, {"look", "fill", "insert", "store"})
         /\ Get(t) \/ Active(t) => GoesOn(t, {"store", "find", "load"})
         /\ Insert(t) => GoesOn(t, {"store"})
         /\ CacheUpdate(t) => GoesOn(t, {"uli", "rules"})
         /\ Linked(t) => GoesOn(t, {"remove", "ending"})
         /\ End(t) => GoesOn(t, {"store"})
         /\ Rules(t) => GoesOn(t, {"send"})
         /\ \A served \in BOOLEAN :
              ListProcera(t, served) => GoesOn(t, {"rules", "rar"})
         /\ \A p \in Session, served \in BOOLEAN :
              ChangeUli(t, p, served) => GoesOn(t, {"rules", "rar"})
         /\ \A c \in Session, served \in BOOLEAN :
              EndChild(t, c, served) => GoesOn(t, {"remove", "ending"})
<1>0. DOMAIN hand = Thread /\ DOMAIN hand[t] = Fields
  BY DEF TypeInv, HandsType, HandType
<1>1. ASSUME Find(t) \/ Look(t) \/ Adopt(t)
      PROVE  GoesOn(t, {"look", "fill", "insert", "store"})
  <2>1. ASSUME NoCore(t) PROVE GoesOn(t, {"insert", "store"})
    BY <1>0, <2>1 DEF NoCore, Inserts, Go, GoesOn, Fields
  <2>2. ASSUME Find(t), ~NoCore(t) PROVE GoesOn(t, {"look"})
    BY <1>0, <2>2 DEF Find, Go, GoesOn, Fields
  <2>3. ASSUME Look(t), ~NoCore(t) PROVE GoesOn(t, {"fill"})
    BY <1>0, <2>3 DEF Look, Then, Go, GoesOn, Fields
  <2>4. ASSUME Adopt(t) PROVE GoesOn(t, {"insert", "store"})
    BY <1>0, <2>4 DEF Adopt, Inserts, Go, GoesOn, Fields
  <2> QED BY <1>1, <2>1, <2>2, <2>3, <2>4 DEF GoesOn
<1>2. ASSUME Get(t) \/ Active(t) PROVE GoesOn(t, {"store", "find", "load"})
  BY <1>0, <1>2 DEF Get, Active, Go, GoesOn, Fields
<1>3. ASSUME Insert(t) PROVE GoesOn(t, {"store"})
  BY <1>0, <1>3 DEF Insert, Then, Go, GoesOn, Fields
<1>4. ASSUME CacheUpdate(t) PROVE GoesOn(t, {"uli", "rules"})
  BY <1>0, <1>4 DEF CacheUpdate, AfterCacheUpdate, Then, Go, GoesOn, Fields
<1>5. ASSUME Linked(t) PROVE GoesOn(t, {"remove", "ending"})
  BY <1>0, <1>5 DEF Linked, Go, GoesOn, Fields
<1>6. ASSUME End(t) PROVE GoesOn(t, {"store"})
  BY <1>0, <1>6 DEF End, Then, Go, GoesOn, Fields
<1>7. ASSUME Rules(t) PROVE GoesOn(t, {"send"})
  BY <1>0, <1>7 DEF Rules, Go, GoesOn, Idle
<1>8. ASSUME NEW served \in BOOLEAN, ListProcera(t, served)
      PROVE  GoesOn(t, {"rules", "rar"})
  BY <1>0, <1>8 DEF ListProcera, Go, GoesOn, Fields
<1>9. ASSUME NEW p \in Session, NEW served \in BOOLEAN, ChangeUli(t, p, served)
      PROVE  GoesOn(t, {"rules", "rar"})
  BY <1>0, <1>9 DEF ChangeUli, Go, GoesOn, Fields
<1>10. ASSUME NEW c \in Session, NEW served \in BOOLEAN, EndChild(t, c, served)
       PROVE  GoesOn(t, {"remove", "ending"})
  BY <1>0, <1>10 DEF EndChild, Go, GoesOn, Fields
<1> QED
  BY <1>1, <1>2, <1>3, <1>4, <1>5, <1>6, <1>7, <1>8, <1>9, <1>10

LEMMA GoingToLoad ==
  ASSUME TypeInv, NEW t \in Thread
  PROVE  /\ Store(t) => GoesOn(t, {"load", "active", "update", "uli", "rules"})
         /\ Load(t) => GoesOn(t, {"update", "uli", "rules"})
         /\ (Store(t) \/ Load(t)) /\ Type[hand[t].msg] = "TERMINATION"
              => hand'[t].pc \in {"load", "rules"}
<1>0. DOMAIN hand = Thread /\ DOMAIN hand[t] = Fields
  BY DEF TypeInv, HandsType, HandType
<1>1. ASSUME Store(t)
      PROVE  /\ GoesOn(t, {"load", "active", "update", "uli", "rules"})
             /\ Type[hand[t].msg] = "TERMINATION"
                  => hand'[t].pc \in {"load", "rules"}
  BY <1>0, <1>1
     DEF Store, Then, Go, AfterLoad, AfterCacheUpdate, GoesOn, Fields
<1>2. ASSUME Load(t)
      PROVE  /\ GoesOn(t, {"update", "uli", "rules"})
             /\ Type[hand[t].msg] = "TERMINATION" => hand'[t].pc = "rules"
  <2>1. PICK names, asked : \/ Loaded(t, Gathered(t, names, asked))
                            \/ Loaded(t, Defaults(t))
    BY <1>2 DEF Load
  <2>2. PICK g \in {Gathered(t, names, asked), Defaults(t)} : Loaded(t, g)
    BY <2>1
  <2>3. DOMAIN g = Fields /\ g.msg = hand[t].msg
    BY GatheredKept
  <2> QED
    BY <1>0, <2>2, <2>3
       DEF Loaded, Go, AfterLoad, AfterCacheUpdate, GoesOn, Fields
<1> QED BY <1>1, <1>2

(* What a handler under way may do *)
LEMMA ClosedStep ==
  ASSUME TypeInv, ClosedInv, NEW t \in Thread, hand[t].pc # "idle",
         \A u \in Thread \ {t} : hand'[u] = hand[u],
         hand'[t].pc # "idle" => hand'[t].msg = hand[t].msg,
         unknown \subseteq unknown', DOMAIN rulesOf' = Session,
         \A s \in Session : Over(s)' => Over(s),
         Over(At(t)) => hand'[t].pc \in Ending \cup {"idle"},
         \A s \in Session :
           hand[t].pc \in Leaving /\ s = At(t)
             => hand'[t].pc \in Leaving \/ Gone(s)',
         \A s \in Session : Over(s) /\ Gone(s) => Gone(s)' \/ s \in unknown'
  PROVE  ClosedInv'
<1> SUFFICES ASSUME NEW s \in Session, Over(s)'
             PROVE  /\ \A u \in Thread :
                         Handles(u, s)' =>
                           /\ Type[hand'[u].msg] = "TERMINATION"
                           /\ hand'[u].pc \in Ending
                    /\ Removes(s)' \/ s \in unknown' \/ Gone(s)'
  BY DEF ClosedInv
<1>1. /\ Over(s)
      /\ \A u \in Thread : Handles(u, s) => /\ Type[hand[u].msg] = "TERMINATION"
                                            /\ hand[u].pc \in Ending
      /\ Removes(s) \/ s \in unknown \/ Gone(s)
  BY DEF ClosedInv
<1>3. ASSUME NEW u \in Thread, Handles(u, s)'
      PROVE  Type[hand'[u].msg] = "TERMINATION" /\ hand'[u].pc \in Ending
  <2>1. CASE u = t
    BY <1>1, <1>3, <2>1 DEF Handles, At
  <2>2. CASE u # t
    BY <1>1, <1>3, <2>2 DEF Handles, At
  <2> QED BY <2>1, <2>2
<1>4. Removes(s)' \/ s \in unknown' \/ Gone(s)'
  <2>1. CASE Removes(s)
    <3>1. PICK u \in Thread : Handles(u, s) /\ hand[u].pc \in Leaving
      BY <2>1 DEF Removes
    <3>2. CASE u = t
      <4>1. At(t) = s /\ (hand'[t].pc \in Leaving \/ Gone(s)')
        BY <3>1, <3>2 DEF Handles
      <4>2. ASSUME hand'[t].pc \in Leaving PROVE Removes(s)'
        <5>1. hand'[t].msg = hand[t].msg
          BY <4>2 DEF Leaving
        <5>2. Handles(t, s)'
          BY <4>1, <4>2, <5>1 DEF Handles, At, Leaving
        <5> QED BY <4>2, <5>2 DEF Removes
      <4> QED BY <4>1, <4>2
    <3>3. CASE u # t
      BY <3>1, <3>3 DEF Removes, Handles, At
    <3> QED BY <3>2, <3>3
  <2>2. CASE s \in unknown \/ Gone(s)
    BY <1>1, <2>2
  <2> QED BY <1>1, <2>1, <2>2
<1> QED BY <1>3, <1>4

(* A handler that leaves the registry, the rules and the gateways alone *)
LEMMA ClosedOwn ==
  ASSUME TypeInv, ClosedInv, NEW t \in Thread, NEW pcs, GoesOn(t, pcs),
         hand[t].pc # "idle", "idle" \notin pcs,
         UNCHANGED <<gw, raced, unknown, cache, order, parent, rulesOf>>,
         Over(At(t)) => hand'[t].pc \in Ending,
         hand[t].pc \in Leaving => hand'[t].pc \in Leaving
  PROVE  ClosedInv'
<1>1. \A s \in Session : Over(s)' = Over(s) /\ Gone(s)' = Gone(s)
  BY DEF Over, Gone
<1>2. DOMAIN rulesOf' = Session
  BY DEF ClosedInv
<1> QED BY <1>1, <1>2, ClosedStep DEF GoesOn

(* What a handler of a session that is over is at *)
LEMMA OverHandler ==
  ASSUME TypeInv, ClosedInv, NEW t \in Thread, hand[t].pc # "idle", Over(At(t))
  PROVE  Type[hand[t].msg] = "TERMINATION" /\ hand[t].pc \in Ending
BY HandTypes DEF ClosedInv, Handles

LEMMA FindClosed ==
  ASSUME TypeInv, ClosedInv, NEW t \in Thread,
         Find(t) \/ Look(t) \/ Adopt(t) \/ Get(t) \/ Active(t)
  PROVE  ClosedInv'
<1>0. /\ UNCHANGED <<gw, raced, unknown, cache, order, parent, rulesOf>>
      /\ hand[t].pc \in {"find", "look", "fill", "get", "active"}
  BY DEF Find, Look, Adopt, Get, Active, Unmoved, gateways, registry, ruleVars
<1>1. ~Over(At(t))
  BY <1>0, OverHandler DEF Ending, Leaving
<1>2. GoesOn(t, {"look", "fill", "insert", "store", "find", "load"})
  BY Going DEF GoesOn
<1> QED BY <1>0, <1>1, <1>2, ClosedOwn DEF Leaving

LEMMA LoadClosed ==
  ASSUME TypeInv, ClosedInv, NEW t \in Thread, Load(t)
  PROVE  ClosedInv'
<1>0. /\ UNCHANGED <<gw, raced, unknown, cache, order, parent, rulesOf>>
      /\ hand[t].pc = "load"
  BY DEF Load, gateways, registry, ruleVars
<1>1. GoesOn(t, {"update", "uli", "rules"})
  BY GoingToLoad
<1>2. Over(At(t)) => hand'[t].pc \in Ending
  BY <1>0, OverHandler, GoingToLoad DEF Ending
<1> QED BY <1>0, <1>1, <1>2, ClosedOwn DEF Leaving

(* The rules of one session are exchanged.                                 *)
LEMMA ExchangedGone ==
  ASSUME ClosedInv, NEW s \in Session, NEW gone, NEW added,
         rulesOf' = Exchanged(s, gone, added),
         UNCHANGED <<cache, order, parent>>
  PROVE  /\ DOMAIN rulesOf' = Session
         /\ \A c \in Session : Gone(c) /\ (c # s \/ added = {}) => Gone(c)'
<1>1. rulesOf' = [rulesOf EXCEPT ![s] = (@ \ gone) \cup added]
  BY DEF Exchanged
<1>2. DOMAIN rulesOf' = Session
  BY <1>1 DEF ClosedInv
<1>3. ASSUME NEW c \in Session, rulesOf[c] = {}, c # s \/ added = {}
      PROVE  rulesOf'[c] = {}
  <2>1. CASE c = s
    BY <1>1, <1>3, <2>1 DEF ClosedInv
  <2>2. CASE c # s
    BY <1>1, <1>3, <2>2 DEF ClosedInv
  <2> QED BY <2>1, <2>2
<1> QED BY <1>2, <1>3 DEF Gone

LEMMA StoreClosed ==
  ASSUME TypeInv, ClosedInv, NEW t \in Thread, Store(t)
  PROVE  ClosedInv'
<1>0. /\ UNCHANGED <<gw, raced, unknown, cache, order, parent>>
      /\ hand[t].pc = "store" /\ At(t) \in Session
  BY HandTypes DEF Store, gateways, registry
<1>1. PICK closed : rulesOf' = Exchanged(At(t), closed, {})
  BY DEF Store
<1>2. /\ DOMAIN rulesOf' = Session
      /\ \A c \in Session : Gone(c) => Gone(c)'
  BY <1>0, <1>1, ExchangedGone
<1>3. GoesOn(t, {"load", "active", "update", "uli", "rules"})
  BY GoingToLoad
<1>4. Over(At(t)) => hand'[t].pc \in Ending
  BY <1>0, OverHandler, GoingToLoad DEF Ending
<1>5. \A s \in Session : Over(s)' = Over(s)
  BY <1>0 DEF Over
<1> QED BY <1>0, <1>2, <1>3, <1>4, <1>5, ClosedStep DEF GoesOn, Leaving

(* A session that is removed from the caches is gone, and so is what was.  *)
LEMMA RemoveSessionGone ==
  ASSUME TypeInv, ClosedInv, NEW s \in Session, RemoveSession(s)
  PROVE  /\ Gone(s)'
         /\ \A c \in Session : Gone(c) => Gone(c)'
         /\ DOMAIN rulesOf' = Session
<1>0. /\ DOMAIN cache = Session /\ DOMAIN rulesOf = Session
      /\ order \in Seq(Core)
  BY DEF TypeInv, RegistryType, ClosedInv
<1>1. /\ cache' = [cache EXCEPT ![s] = {}]
      /\ parent' = [c \in Session |->
                      IF s \in {c, parent[c]} THEN NoSession ELSE parent[c]]
      /\ rulesOf' = [rulesOf EXCEPT ![s] = {}]
  BY DEF RemoveSession, Forgotten
<1>2. Range(order') = Range(order) \ {s}
  BY <1>0, WithoutList DEF RemoveSession
<1>3. DOMAIN rulesOf' = Session
  BY <1>0, <1>1
<1>4. Gone(s)'
  BY <1>0, <1>1, <1>2 DEF Gone
<1>5. ASSUME NEW c \in Session, Gone(c) PROVE Gone(c)'
  <2>1. cache'[c] = {} /\ rulesOf'[c] = {} /\ parent'[c] = NoSession
    BY <1>0, <1>1, <1>5 DEF Gone
  <2> QED BY <1>2, <1>5, <2>1 DEF Gone
<1> QED BY <1>3, <1>4, <1>5

LEMMA EndClosed ==
  ASSUME TypeInv, ClosedInv, NEW t \in Thread, End(t)
  PROVE  ClosedInv'
<1>0. /\ UNCHANGED <<gw, raced, unknown>>
      /\ hand[t].pc = "remove" /\ At(t) \in Session /\ RemoveSession(At(t))
  BY HandTypes DEF End, gateways
<1>1. GoesOn(t, {"store"})
  BY Going
<1>2. \A s \in Session : Over(s)' = Over(s)
  BY <1>0 DEF Over
<1>4. \A s \in Session : s = At(t) => Gone(s)'
  <2>1. ASSUME NEW s \in Session, s = At(t) PROVE Gone(s)'
    <3>1. RemoveSession(s)
      BY <1>0, <2>1
    <3> QED BY <3>1, RemoveSessionGone
  <2> QED BY <2>1
<1>5. /\ DOMAIN rulesOf' = Session
      /\ \A s \in Session : Gone(s) => Gone(s)'
  BY <1>0, RemoveSessionGone
<1> QED
  BY <1>0, <1>1, <1>2, <1>4, <1>5, ClosedStep
     DEF GoesOn, Leaving, Ending

(* The children a core session leaves, one after the other *)
LEMMA LinkedClosed ==
  ASSUME TypeInv, ClosedInv, NEW t \in Thread,
         \/ Linked(t)
         \/ \E c \in Session, served \in BOOLEAN : EndChild(t, c, served)
  PROVE  ClosedInv'
<1>0. UNCHANGED <<gw, raced, unknown, cache, order, parent, rulesOf>>
  BY DEF Linked, EndChild, Unmoved, gateways, registry, ruleVars
<1>1. hand[t].pc \in {"linked", "ending"}
  BY DEF Linked, EndChild
<1>2. GoesOn(t, {"remove", "ending"})
  BY Going
<1>3. hand'[t].pc \in Leaving
  BY <1>2 DEF GoesOn, Leaving
<1> QED BY <1>0, <1>1, <1>2, <1>3, ClosedOwn DEF Ending

(* A session that is cached is not over, and leaves the others alone.      *)
LEMMA InsertClosed ==
  ASSUME TypeInv, ClosedInv, NEW t \in Thread, Insert(t) \/ CacheUpdate(t)
  PROVE  ClosedInv'
<1>0. /\ UNCHANGED <<gw, raced, unknown, rulesOf>>
      /\ hand[t].pc \in {"insert", "update"} /\ At(t) \in Session
      /\ InsertSession(At(t), hand[t].data, hand[t].core)
  BY HandTypes DEF Insert, CacheUpdate, Unmoved, gateways, ruleVars
<1>1. GoesOn(t, {"store", "uli", "rules"})
  BY Going DEF GoesOn
<1>2. ~Over(At(t))
  BY <1>0, OverHandler DEF Ending, Leaving
<1>3. ASSUME NEW s \in Session, s # At(t), Gone(s) PROVE Gone(s)'
  <2>1. /\ DOMAIN cache = Session /\ order \in Seq(Core)
        /\ parent \in [Session -> Core \cup {NoSession}]
    BY DEF TypeInv, RegistryType
  <2>2. cache'[s] = {} /\ parent'[s] = NoSession
    BY <1>0, <1>3, <2>1 DEF InsertSession, Gone
  <2>3. s \notin Range(order')
    <3>1. order' \in {order, Append(order, At(t))}
      BY <1>0 DEF InsertSession
    <3>2. At(t) \in Core \/ order' = order
      BY <1>0 DEF InsertSession
    <3>3. CASE At(t) \in Core
      <4>1. Range(Append(order, At(t))) = Range(order) \cup {At(t)}
        BY <2>1, <3>3, AppendedList
      <4> QED BY <1>3, <3>1, <4>1 DEF Gone
    <3>4. CASE order' = order
      BY <1>3, <3>4 DEF Gone
    <3> QED BY <3>2, <3>3, <3>4
  <2> QED BY <1>0, <1>3, <2>2, <2>3 DEF Gone
<1>4. \A s \in Session : Over(s)' = Over(s)
  BY <1>0 DEF Over
<1>5. DOMAIN rulesOf' = Session
  BY <1>0 DEF ClosedInv
<1> QED
  BY <1>0, <1>1, <1>2, <1>3, <1>4, <1>5, ClosedStep DEF GoesOn, Leaving

LEMMA RulesClosed ==
  ASSUME TypeInv, ClosedInv, NEW t \in Thread, Rules(t)
  PROVE  ClosedInv'
<1>0. /\ UNCHANGED <<gw, raced, unknown, cache, order, parent>>
      /\ hand[t].pc = "rules" /\ At(t) \in Session
  BY HandTypes DEF Rules, gateways, registry
<1>1. GoesOn(t, {"send"})
  BY Going
<1>2. \A s \in Session : Over(s)' = Over(s)
  BY <1>0 DEF Over
<1>3. hand'[t].pc \in Ending
  BY <1>1 DEF GoesOn, Ending
<1>4. /\ DOMAIN rulesOf' = Session
      /\ \A s \in Session : Over(s) /\ Gone(s) => Gone(s)'
  <2>1. CASE rulesOf' = rulesOf
    BY <1>0, <2>1 DEF Gone, ClosedInv
  <2>2. CASE rulesOf' # rulesOf
    <3>1. PICK gone, added : rulesOf' = Exchanged(At(t), gone, added)
      BY <2>2 DEF Rules, OperateRules
    <3>2. ~Over(At(t))
      BY <1>0, <2>2, OverHandler DEF Rules
    <3> QED BY <1>0, <3>1, <3>2, ExchangedGone
  <2> QED BY <2>1, <2>2
<1> QED
  BY <1>0, <1>1, <1>2, <1>3, <1>4, ClosedStep DEF GoesOn, Leaving

LEMMA SendClosed ==
  ASSUME TypeInv, ClosedInv, NEW t \in Thread, Send(t)
  PROVE  ClosedInv'
<1>0. /\ UNCHANGED <<raced, unknown, cache, order, parent, rulesOf>>
      /\ hand[t].pc = "send" /\ At(t) \in Session
      /\ gw \in [Session -> Gateway] /\ DOMAIN hand = Thread
  BY HandTypes DEF Send, registry, ruleVars, TypeInv, GatewayType, HandsType
<1>1. /\ hand'[t].pc = "idle"
      /\ \A u \in Thread \ {t} : hand'[u] = hand[u]
  BY <1>0 DEF Send, Go, Idle
<1>2. \A s \in Session : Over(s)' => Over(s)
  BY <1>0 DEF Send, Over
<1>3. /\ DOMAIN rulesOf' = Session
      /\ \A s \in Session : Gone(s) => Gone(s)'
  BY <1>0 DEF ClosedInv, Gone
<1> QED BY <1>0, <1>1, <1>2, <1>3, ClosedStep DEF Leaving

(* Rules that a change of location puts back come with a RAR.              *)
LEMMA ProceraClosed ==
  ASSUME TypeInv, ClosedInv, NEW t \in Thread,
         \/ \E served \in BOOLEAN : ListProcera(t, served)
         \/ \E p \in Session, served \in BOOLEAN : ChangeUli(t, p, served)
  PROVE  ClosedInv'
<1>0. /\ UNCHANGED <<gw, raced, cache, order, parent>>
      /\ hand[t].pc \in {"uli", "rar"}
  BY DEF ListProcera, ChangeUli, ReAuth, Unmoved, gateways, registry
<1>1. GoesOn(t, {"rules", "rar"})
  BY Going
<1>2. ~Over(At(t))
  BY <1>0, OverHandler DEF Ending, Leaving
<1>3. \A s \in Session : Over(s)' = Over(s)
  BY <1>0 DEF Over
<1>4. /\ DOMAIN rulesOf' = Session /\ unknown \subseteq unknown'
      /\ \A s \in Session : Over(s) /\ Gone(s) => Gone(s)' \/ s \in unknown'
  <2>1. CASE rulesOf' = rulesOf /\ unknown' = unknown
    BY <1>0, <2>1 DEF Gone, ClosedInv
  <2>2. CASE ~(rulesOf' = rulesOf /\ unknown' = unknown)
    <3>1. PICK p \in Session, served \in BOOLEAN : ChangeUli(t, p, served)
      BY <2>2 DEF ListProcera, Unmoved, gateways, ruleVars
    <3>2. served
      BY <2>2, <3>1 DEF ChangeUli, gateways
    <3>3. PICK avps : ReAuth(p, avps, t)
      BY <3>1, <3>2 DEF ChangeUli
    <3>4. PICK gone, added : rulesOf' = Exchanged(p, gone, added)
      BY <3>1, <3>2 DEF ChangeUli, OperateRules
    <3>5. /\ DOMAIN rulesOf' = Session
          /\ \A s \in Session : Gone(s) /\ s # p => Gone(s)'
      BY <1>0, <3>4, ExchangedGone
    <3>6. unknown \subseteq unknown' /\ (Over(p) => p \in unknown')
      BY <3>3 DEF ReAuth, Over
    <3> QED BY <3>5, <3>6
  <2> QED BY <2>1, <2>2
<1> QED
  BY <1>0, <1>1, <1>2, <1>3, <1>4, ClosedStep DEF GoesOn, Leaving

(* A request that ends a session finds no other handler at it, or it is    *)
(* raced; a session that is over gets no more requests.                    *)
LEMMA ReceiveClosed ==
  ASSUME TypeInv, ClosedInv, NEW t \in Thread, NEW m \in DOMAIN Message,
         NEW conn, Receive(t, m, conn)
  PROVE  ClosedInv'
<1> DEFINE e == SessionOf[m]
<1>0. /\ UNCHANGED <<unknown, cache, order, parent, rulesOf>>
      /\ hand[t].pc = "idle" /\ DOMAIN hand = Thread
      /\ gw \in [Session -> Gateway] /\ e \in Session
  BY MessageAssumption
     DEF Receive, registry, ruleVars, TypeInv, HandsType, GatewayType
<1>1. /\ \A u \in Thread \ {t} : hand'[u] = hand[u]
      /\ hand'[t].msg = m /\ hand'[t].pc = FirstStep(DialectOf[e], Type[m])
  BY <1>0 DEF Receive, Go, Idle
<1>2. /\ gw'[e] = "closed" => Type[m] = "TERMINATION"
      /\ \A s \in Session \ {e} : gw'[s] = gw[s]
  BY <1>0 DEF Receive, CanSend
<1>3. /\ raced \subseteq raced'
      /\ (\E u \in Thread : Handles(u, e)) => e \in raced'
  BY DEF Receive
<1>4. DOMAIN rulesOf' = Session
  BY <1>0 DEF ClosedInv
<1> SUFFICES ASSUME NEW s \in Session, Over(s)'
             PROVE  /\ \A u \in Thread :
                         Handles(u, s)' =>
                           /\ Type[hand'[u].msg] = "TERMINATION"
                           /\ hand'[u].pc \in Ending
                    /\ Removes(s)' \/ s \in unknown' \/ Gone(s)'
  BY <1>4 DEF ClosedInv
<1>5. CASE s = e
  <2>1. /\ Type[m] = "TERMINATION"
        /\ \A u \in Thread : ~Handles(u, s)
    BY <1>2, <1>3, <1>5 DEF Over
  <2>2. hand'[t].pc \in Leaving
    BY <1>1, <2>1 DEF FirstStep, Leaving
  <2>3. Handles(t, s)'
    BY <1>1, <1>5, <2>2 DEF Handles, At, Leaving
  <2>4. Removes(s)'
    BY <2>2, <2>3 DEF Removes
  <2>5. \A u \in Thread \ {t} : ~Handles(u, s)'
    BY <1>1, <2>1 DEF Handles, At
  <2> QED BY <1>1, <2>1, <2>2, <2>4, <2>5 DEF Ending
<1>6. CASE s # e
  <2>1. Over(s)
    BY <1>2, <1>3, <1>6 DEF Over
  <2>2. /\ \A u \in Thread : Handles(u, s) => /\ Type[hand[u].msg] = "TERMINATION"
                                              /\ hand[u].pc \in Ending
        /\ Removes(s) \/ s \in unknown \/ Gone(s)
    BY <2>1 DEF ClosedInv
  <2>3. ~Handles(t, s)' /\ ~Handles(t, s)
    BY <1>0, <1>1, <1>6 DEF Handles, At
  <2>4. \A u \in Thread \ {t} : Handles(u, s)' = Handles(u, s)
    BY <1>1 DEF Handles, At
  <2>5. Removes(s) => Removes(s)'
    BY <1>1, <2>3, <2>4 DEF Removes
  <2>6. Gone(s) => Gone(s)'
    BY <1>0 DEF Gone
  <2> QED BY <1>0, <1>1, <2>2, <2>3, <2>4, <2>5, <2>6
<1> QED BY <1>5, <1>6

(* What nobody who handles a request does *)
LEMMA ClosedKept ==
  ASSUME ClosedInv, UNCHANGED <<hand, gw, raced>>, DOMAIN rulesOf' = Session,
         \A s \in Session :
           Over(s) /\ (s \in unknown \/ Gone(s)) => s \in unknown' \/ Gone(s)'
  PROVE  ClosedInv'
<1>1. \A s \in Session : Over(s)' = Over(s) /\ Removes(s)' = Removes(s)
  BY DEF Over, Removes, Handles, At
<1>2. \A t \in Thread, s \in Session : Handles(t, s)' = Handles(t, s)
  BY DEF Handles, At
<1>3. ASSUME NEW s \in Session, Over(s)'
      PROVE  /\ \A u \in Thread :
                  Handles(u, s)' => /\ Type[hand'[u].msg] = "TERMINATION"
                                    /\ hand'[u].pc \in Ending
             /\ Removes(s)' \/ s \in unknown' \/ Gone(s)'
  <2>1. /\ Over(s)
        /\ \A u \in Thread : Handles(u, s) => /\ Type[hand[u].msg] = "TERMINATION"
                                              /\ hand[u].pc \in Ending
        /\ Removes(s) \/ s \in unknown \/ Gone(s)
    BY <1>1, <1>3 DEF ClosedInv
  <2> QED BY <1>1, <1>2, <2>1
<1> QED BY <1>3 DEF ClosedInv

(* The thread of the refresh queue puts rules back with a RAR, too, and    *)
(* the answer to one takes the session out.                                *)
LEMMA RefreshClosed ==
  ASSUME TypeInv, ClosedInv, Refresh
  PROVE  ClosedInv'
<1>1. /\ UNCHANGED <<hand, gw, raced, cache, order, parent>>
      /\ client.at \in Session
  BY DEF Refresh, ReAuth, registry, TypeInv, ClientType
<1>2. PICK avps : ReAuth(client.at, avps, NoSession)
  BY DEF Refresh
<1>3. PICK gone, added : rulesOf' = Exchanged(client.at, gone, added)
  BY DEF Refresh, OperateRules
<1>4. /\ DOMAIN rulesOf' = Session
      /\ \A s \in Session : Gone(s) /\ s # client.at => Gone(s)'
  BY <1>1, <1>3, ExchangedGone
<1>5. unknown \subseteq unknown' /\ (Over(client.at) => client.at \in unknown')
  BY <1>2 DEF ReAuth, Over
<1> QED BY <1>1, <1>4, <1>5, ClosedKept

LEMMA RaaClosed ==
  ASSUME TypeInv, ClosedInv, NEW s \in Session, Raa(s)
  PROVE  ClosedInv'
<1>1. /\ UNCHANGED <<hand, gw, raced>> /\ unknown' = unknown \ {s}
      /\ RemoveSession(s)
  BY DEF Raa
<1>2. /\ Gone(s)' /\ DOMAIN rulesOf' = Session
      /\ \A c \in Session : Gone(c) => Gone(c)'
  BY <1>1, RemoveSessionGone
<1>3. \A c \in Session : c \in unknown \/ Gone(c) => c \in unknown' \/ Gone(c)'
  BY <1>1, <1>2
<1> QED BY <1>1, <1>2, <1>3, ClosedKept

LEMMA OthersClosed ==
  ASSUME TypeInv, ClosedInv,
         \/ \E t \in Thread : NullConnection(t)
         \/ \E s \in Session : Apply(s) \/ TakeAbort(s) \/ Visit(s)
         \/ TakeRefresh
         \/ \E p \in DOMAIN Profiles : ChangeProfile(p)
         \/ UNCHANGED vars
  PROVE  ClosedInv'
<1>1. UNCHANGED <<hand, gw, raced, cache, order, parent, rulesOf>>
  BY DEF NullConnection, Apply, TakeAbort, Visit, Release, Skip, Compare,
         TakeRefresh, ChangeProfile, vars, gateways, registry, ruleVars
<1>2. unknown \subseteq unknown'
  BY DEF NullConnection, Apply, TakeAbort, Visit, Release, Skip, Compare,
         TakeRefresh, ChangeProfile, vars, gateways
<1>3. \A s \in Session : Gone(s)' = Gone(s)
  BY <1>1 DEF Gone
<1> QED BY <1>1, <1>2, <1>3, ClosedKept DEF ClosedInv

LEMMA ClosedInitially == Init => ClosedInv
<1> SUFFICES ASSUME Init PROVE ClosedInv
  OBVIOUS
<1>1. \A s \in Session : gw[s] # "closed"
  BY DEF Init
<1> QED BY <1>1 DEF Init, ClosedInv, Over

LEMMA ClosedAll == TypeInv /\ ClosedInv /\ [Next]_vars => ClosedInv'
<1> SUFFICES ASSUME TypeInv, ClosedInv, [Next]_vars PROVE ClosedInv'
  OBVIOUS
<1>1. ASSUME NEW t \in Thread, Handle(t) PROVE ClosedInv'
  BY <1>1, ReceiveClosed, FindClosed, InsertClosed, LinkedClosed, EndClosed,
     StoreClosed, LoadClosed, ProceraClosed, RulesClosed, SendClosed,
     OthersClosed DEF Handle
<1>2. ASSUME NEW s \in Session, Apply(s) \/ Raa(s) \/ TakeAbort(s) \/ Visit(s)
      PROVE  ClosedInv'
  BY <1>2, RaaClosed, OthersClosed
<1> QED
  BY <1>1, <1>2, RefreshClosed, OthersClosed DEF Next

(* In every state a session that is over has a handler on the way to       *)
(* remove it, or a RAR that its gateway has yet to answer, or it is gone.  *)
THEOREM ClosedInvariance == Spec => [](TypeInv /\ ClosedInv)
<1>1. Init => TypeInv /\ ClosedInv
  BY TypesInitially, ClosedInitially
<1>2. TypeInv /\ ClosedInv /\ [Next]_vars => TypeInv' /\ ClosedInv'
  BY TypeStep, ClosedAll
<1> QED BY <1>1, <1>2, PTL DEF Spec

(* A session that its gateway ended while no other request was handled     *)
(* leaves no record, rule, link or entry of the index when everybody comes *)
(* to rest, whatever refreshes and changes of location put back while it   *)
(* was on its way out: their RARs are answered, and the answer takes them  *)
(* out.                                                                    *)
THEOREM NothingIsLeft == Spec => []EndLeavesNothing
<1>1. TypeInv /\ ClosedInv => EndLeavesNothing
  BY DEF ClosedInv, EndLeavesNothing, Quiet, Over, Removes, Handles, Gone
<1> QED BY <1>1, ClosedInvariance, PTL
-----------------------------------------------------------------------------
(* The rules of a session in its cache and in its gateway.  First the      *)
(* lists that rules and AVPs come in.                                      *)
LEMMA ShortLists ==
  /\ IsList(<<>>)
  /\ \A x : IsList(<<x>>) /\ DOMAIN <<x>> = {1} /\ <<x>>[1] = x
<1>1. IsList(<<>>)
  <2>1. <<>> \in Seq({})
    OBVIOUS
  <2> QED BY <2>1, SequenceList
<1>2. ASSUME NEW x
      PROVE  IsList(<<x>>) /\ DOMAIN <<x>> = {1} /\ <<x>>[1] = x
  <2>1. <<x>> \in Seq({x}) /\ DOMAIN <<x>> = {1} /\ <<x>>[1] = x
    OBVIOUS
  <2> QED BY <2>1, SequenceList
<1> QED BY <1>1, <1>2

(* A list made out of the entries of another *)
LEMMA ListOver ==
  ASSUME NEW list, IsList(list), NEW x, x = [i \in DOMAIN list |-> x[i]]
  PROVE  IsList(x) /\ DOMAIN x = DOMAIN list
<1>1. DOMAIN list = 1..Len(list) /\ Len(list) \in Nat
  BY ListSequence
<1> QED BY <1>1, MappedList

LEMMA SetList ==
  ASSUME NEW S, IsFiniteSet(S)
  PROVE  /\ IsList(SetToSeq(S))
         /\ \A i \in DOMAIN SetToSeq(S) : SetToSeq(S)[i] \in S
         /\ \A x \in S : \E i \in DOMAIN SetToSeq(S) : SetToSeq(S)[i] = x
<1> DEFINE n == Cardinality(S)
<1>1. n \in Nat
  BY FS_CardinalityType
<1>2. \E f : f \in Bijection(1..n, S)
  BY FS_CardinalityType DEF ExistsBijection
<1>3. \E f \in [1..n -> S] : IsInjective(f)
  BY <1>2 DEF Bijection, Injection
<1> DEFINE g == SetToSeq(S)
<1>4. g \in [1..n -> S] /\ IsInjective(g)
  BY <1>3 DEF SetToSeq
<1> HIDE DEF g
<1>5. IsFiniteSet(1..n) /\ Cardinality(1..n) = n
  BY <1>1, FS_Interval
<1>6. g \in Surjection(1..n, S)
  <2>1. g \in Injection(1..n, S)
    BY <1>4 DEF Injection
  <2> QED BY <1>5, <2>1, FS_Injection
<1>7. IsList(g)
  <2>1. g = [i \in 1..n |-> g[i]]
    BY <1>4
  <2> QED BY <1>1, <2>1, MappedList
<1> QED BY <1>4, <1>6, <1>7 DEF Surjection, g

-----------------------------------------------------------------------------
(* A rule that is installed under its name, unless that is the name of a   *)
(* group, and one that is removed under its name                           *)
RuleShape(r) ==
  {"name", "active", "relevant", "dynamic", "group", "flows"} \subseteq DOMAIN r
Accounted(r) ==
  RuleShape(r) /\ IsList(r.flows) /\ (IsSet(r.group) => r.name \in Grouped)
Bare(r) == RuleShape(r) /\ ~IsSet(r.group)

RuleList(rules) == IsList(rules) /\ \A i \in DOMAIN rules : Accounted(rules[i])
BareList(rules) == IsList(rules) /\ \A i \in DOMAIN rules : Bare(rules[i])

LEMMA NamedRules ==
  ASSUME NEW name
  PROVE  /\ RuleShape(NamedRule(name, FALSE, TRUE))
         /\ NamedRule(name, FALSE, TRUE).name = name
         /\ NamedRule(name, FALSE, TRUE).flows = <<>>
         /\ RuleShape(ActiveRule(name))
         /\ ActiveRule(name).name = name
         /\ ActiveRule(name).group = {}
         /\ ActiveRule(name).active /\ ~ActiveRule(name).relevant
BY DEF NamedRule, ActiveRule, RuleShape

LEMMA KnownOnes ==
  ASSUME NEW n \in DOMAIN Known
  PROVE  /\ Accounted(Known[n]) /\ Known[n].name = n
         /\ ~Known[n].active /\ Known[n].relevant
<1>1. /\ DOMAIN Known[n] = DOMAIN NamedRule(n, FALSE, TRUE)
      /\ Known[n].name = n /\ ~Known[n].active /\ Known[n].relevant
      /\ IsList(Known[n].flows)
  BY RuleAssumption
<1>2. RuleShape(Known[n])
  BY <1>1, NamedRules DEF RuleShape
<1>3. IsSet(Known[n].group) => Known[n].name \in Grouped
  BY <1>1 DEF Grouped
<1> QED BY <1>1, <1>2, <1>3 DEF Accounted

LEMMA KnownList ==
  ASSUME NEW names, IsList(names)
  PROVE  /\ RuleList(KnownRules(Known, names))
         /\ \A i \in DOMAIN KnownRules(Known, names) :
              /\ ~KnownRules(Known, names)[i].active
              /\ KnownRules(Known, names)[i].relevant
<1> DEFINE found == Picked(names, {i \in DOMAIN names : names[i] \in DOMAIN Known})
           rules == KnownRules(Known, names)
<1>1. IsList(found) /\ \A i \in DOMAIN found : found[i] \in DOMAIN Known
  BY PickedIsList
<1>2. rules = [i \in DOMAIN found |-> Known[found[i]]]
  BY DEF KnownRules
<1> HIDE DEF found, rules
<1>3. IsList(rules) /\ DOMAIN rules = DOMAIN found
  BY <1>1, <1>2, ListOver
<1>4. \A i \in DOMAIN rules :
        Accounted(rules[i]) /\ ~rules[i].active /\ rules[i].relevant
  BY <1>1, <1>2, <1>3, KnownOnes
<1> QED BY <1>3, <1>4 DEF RuleList, rules

LEMMA JoinedRules ==
  ASSUME NEW a, NEW b, RuleList(a), RuleList(b)
  PROVE  RuleList(a \o b)
BY JoinedList DEF RuleList

LEMMA JoinedBare ==
  ASSUME NEW a, NEW b, BareList(a), BareList(b)
  PROVE  BareList(a \o b)
BY JoinedList DEF BareList

LEMMA LoadedList ==
  ASSUME NEW names, IsList(names), NEW rules, IsList(rules), NEW dialect
  PROVE  /\ IsList(LoadRuleInfo(Known, names, dialect, rules))
         /\ (dialect # "SCE" /\ RuleList(rules))
              => RuleList(LoadRuleInfo(Known, names, dialect, rules))
<1> DEFINE all == rules \o KnownRules(Known, names)
<1>1. RuleList(KnownRules(Known, names))
  BY KnownList
<1>2. IsList(all) /\ (RuleList(rules) => RuleList(all))
  BY <1>1, JoinedList, JoinedRules DEF RuleList
<1> HIDE DEF all
<1>3. IsList(<<Foremost(all)>>)
  BY ShortLists
<1>4. LoadRuleInfo(Known, names, dialect, rules) =
        IF names = <<>> THEN rules
        ELSE IF dialect = "SCE" /\ all # <<>> THEN <<Foremost(all)>>
        ELSE all
  BY DEF LoadRuleInfo, all
<1> QED BY <1>2, <1>3, <1>4

LEMMA SelectedActive ==
  ASSUME NEW rules, IsList(rules), NEW active
  PROVE  /\ IsList(SelectActive(rules, active))
         /\ RuleList(rules) => RuleList(SelectActive(rules, active))
<1> DEFINE marked == SelectActive(rules, active)
<1>1. marked = [i \in DOMAIN rules |->
                  IF rules[i].name \in Names(active)
                  THEN [rules[i] EXCEPT !.active = TRUE] ELSE rules[i]]
  BY DEF SelectActive
<1> HIDE DEF marked
<1>2. IsList(marked) /\ DOMAIN marked = DOMAIN rules
  BY <1>1, ListOver
<1>3. ASSUME RuleList(rules), NEW i \in DOMAIN marked
      PROVE  Accounted(marked[i])
  <2>1. Accounted(rules[i])
    BY <1>2, <1>3 DEF RuleList
  <2>2. /\ DOMAIN marked[i] = DOMAIN rules[i]
        /\ RuleShape(rules[i]) =>
             /\ marked[i].name = rules[i].name
             /\ marked[i].group = rules[i].group
             /\ marked[i].flows = rules[i].flows
    BY <1>1, <1>2 DEF RuleShape
  <2> QED BY <2>1, <2>2 DEF Accounted, RuleShape
<1> QED BY <1>2, <1>3 DEF RuleList, marked

LEMMA SelectedRelevant ==
  ASSUME NEW rules, NEW active, BareList(active)
  PROVE  BareList(SelectRelevant(rules, active))
<1> DEFINE marked == SelectRelevant(rules, active)
<1>1. marked = [i \in DOMAIN active |->
                  IF active[i].name \in Names(rules)
                  THEN [active[i] EXCEPT !.relevant = TRUE] ELSE active[i]]
  BY DEF SelectRelevant
<1> HIDE DEF marked
<1>2. IsList(marked) /\ DOMAIN marked = DOMAIN active
  BY <1>1, ListOver DEF BareList
<1>3. ASSUME NEW i \in DOMAIN marked
      PROVE  Bare(marked[i])
  <2>1. Bare(active[i])
    BY <1>2 DEF BareList
  <2>2. /\ DOMAIN marked[i] = DOMAIN active[i]
        /\ RuleShape(active[i]) => marked[i].group = active[i].group
    BY <1>1, <1>2 DEF RuleShape
  <2> QED BY <2>1, <2>2 DEF Bare, RuleShape
<1> QED BY <1>2, <1>3 DEF BareList, marked

LEMMA ActiveList ==
  ASSUME NEW s, IsFiniteSet(rulesOf[s])
  PROVE  /\ BareList(ActiveRules(s))
         /\ Names(ActiveRules(s)) = rulesOf[s]
         /\ \A i \in DOMAIN ActiveRules(s) : /\ ActiveRules(s)[i].active
                                             /\ ~ActiveRules(s)[i].relevant
<1> DEFINE names == SetToSeq(rulesOf[s])
           rules == ActiveRules(s)
<1>1. /\ IsList(names)
      /\ \A i \in DOMAIN names : names[i] \in rulesOf[s]
      /\ \A n \in rulesOf[s] : \E i \in DOMAIN names : names[i] = n
  BY SetList
<1>2. rules = [i \in DOMAIN names |-> ActiveRule(names[i])]
  BY DEF ActiveRules
<1> HIDE DEF names, rules
<1>3. IsList(rules) /\ DOMAIN rules = DOMAIN names
  BY <1>1, <1>2, ListOver
<1>4. \A i \in DOMAIN rules : /\ Bare(rules[i]) /\ rules[i].name = names[i]
                              /\ rules[i].active /\ ~rules[i].relevant
  BY <1>2, <1>3, NamedRules DEF Bare, IsSet
<1>5. Names(rules) = rulesOf[s]
  BY <1>1, <1>3, <1>4 DEF Names
<1> QED BY <1>3, <1>4, <1>5 DEF BareList, rules

LEMMA PlaceList ==
  ASSUME NEW s, IsFiniteSet(located[s])
  PROVE  BareList(PlaceRules(s))
<1> DEFINE names == SetToSeq(located[s])
           rules == PlaceRules(s)
<1>1. IsList(names)
  BY SetList
<1>2. rules = [i \in DOMAIN names |->
                 [ActiveRule(names[i]) EXCEPT !.dynamic = {0},
                                                          !.group = {0}]]
  BY DEF PlaceRules
<1> HIDE DEF names, rules
<1>3. IsList(rules) /\ DOMAIN rules = DOMAIN names
  BY <1>1, <1>2, ListOver
<1>4. \A i \in DOMAIN rules : RuleShape(rules[i]) /\ rules[i].group = {0}
  BY <1>2, <1>3, NamedRules DEF RuleShape
<1> QED BY <1>3, <1>4 DEF BareList, Bare, IsSet, rules

LEMMA ProceraRules ==
  ASSUME NEW name
  PROVE  Accounted(ProceraRule(name))
<1> DEFINE r == NamedRule(name, FALSE, TRUE)
<1>1. RuleShape(r) /\ r.flows = <<>>
  BY NamedRules
<1> HIDE DEF r
<1>2. ProceraRule(name) = [r EXCEPT !.dynamic = {0}, !.group = {0}]
  BY DEF ProceraRule, r
<1>3. /\ RuleShape(ProceraRule(name)) /\ ProceraRule(name).flows = <<>>
      /\ ProceraRule(name).group = {0}
  BY <1>1, <1>2 DEF RuleShape
<1> QED BY <1>3, ShortLists DEF Accounted, IsSet

LEMMA AdditionalList ==
  ASSUME NEW h
  PROVE  RuleList(Additional(h))
<1>1. ASSUME NEW imei, NEW station, NEW location
      PROVE  RuleList(AdditionalRules(imei, station, location))
  <2> DEFINE device == IF imei = {} THEN <<>> ELSE <<<<"IMEISV", The(imei)>>>>
             point == IF station = {} THEN <<>>
                      ELSE <<<<"APN", The(station)>>>>
             before == <<<<>>>> \o device \o point
             place == <<UliRule(Cell(location), Last(before))>>
             names == device \o point \o place
             rules == AdditionalRules(imei, station, location)
  <2>1. IsList(device) /\ IsList(point) /\ IsList(place)
    BY ShortLists
  <2>2. rules = [i \in DOMAIN names |-> ProceraRule(names[i])]
    BY DEF AdditionalRules
  <2> HIDE DEF device, point, place, rules
  <2>3. IsList(names)
    BY <2>1, JoinedList
  <2> HIDE DEF names
  <2>4. IsList(rules) /\ DOMAIN rules = DOMAIN names
    BY <2>2, <2>3, ListOver
  <2>5. \A i \in DOMAIN rules : Accounted(rules[i])
    BY <2>2, <2>4, ProceraRules
  <2> QED BY <2>4, <2>5 DEF RuleList, rules
<1>2. RuleList(<<>>)
  BY ShortLists DEF RuleList
<1> QED BY <1>1, <1>2 DEF Additional
-----------------------------------------------------------------------------
(* What a message says about the rules of a session.  Key is how a rule is *)
(* known to the gateway by the AVP that stands for it.                     *)
Key(a) == IF a.name = "Charging-Rule-Definition"
          THEN <<"Charging-Rule-Name", Head(a.value).value>>
          ELSE <<a.name, a.value>>

Says(a, x) ==
  /\ a.name \in RuleKinds \cup {"Charging-Rule-Definition"}
  /\ Key(a) = x

LEMMA InMessage ==
  ASSUME NEW avps, NEW group, NEW x
  PROVE  x \in RulesIn(avps, group) <=>
           \E k \in DOMAIN avps :
             /\ avps[k].name = group
             /\ \E i \in DOMAIN avps[k].value : Says(avps[k].value[i], x)
BY DEF RulesIn, Says, Key

LEMMA JoinedMessages ==
  ASSUME NEW a, NEW b, IsList(a), IsList(b), NEW group
  PROVE  /\ IsList(a \o b)
         /\ RulesIn(a \o b, group) = RulesIn(a, group) \cup RulesIn(b, group)
<1>1. \A x : x \in RulesIn(a \o b, group) =>
               x \in RulesIn(a, group) \cup RulesIn(b, group)
  <2> SUFFICES ASSUME NEW x, x \in RulesIn(a \o b, group)
               PROVE  x \in RulesIn(a, group) \/ x \in RulesIn(b, group)
    OBVIOUS
  <2>1. PICK k \in DOMAIN (a \o b) :
          /\ (a \o b)[k].name = group
          /\ \E i \in DOMAIN (a \o b)[k].value : Says((a \o b)[k].value[i], x)
    BY InMessage
  <2>2. \/ k \in DOMAIN a /\ (a \o b)[k] = a[k]
        \/ k - Len(a) \in DOMAIN b /\ (a \o b)[k] = b[k - Len(a)]
    BY JoinedList
  <2> QED BY <2>1, <2>2, InMessage
<1>2. \A x : x \in RulesIn(a, group) => x \in RulesIn(a \o b, group)
  <2> SUFFICES ASSUME NEW x, x \in RulesIn(a, group)
               PROVE  x \in RulesIn(a \o b, group)
    OBVIOUS
  <2>1. PICK k \in DOMAIN a :
          /\ a[k].name = group
          /\ \E i \in DOMAIN a[k].value : Says(a[k].value[i], x)
    BY InMessage
  <2>2. k \in DOMAIN (a \o b) /\ (a \o b)[k] = a[k]
    BY JoinedList
  <2> QED BY <2>1, <2>2, InMessage
<1>3. \A x : x \in RulesIn(b, group) => x \in RulesIn(a \o b, group)
  <2> SUFFICES ASSUME NEW x, x \in RulesIn(b, group)
               PROVE  x \in RulesIn(a \o b, group)
    OBVIOUS
  <2>1. PICK k \in DOMAIN b :
          /\ b[k].name = group
          /\ \E i \in DOMAIN b[k].value : Says(b[k].value[i], x)
    BY InMessage
  <2>2. Len(a) + k \in DOMAIN (a \o b) /\ (a \o b)[Len(a) + k] = b[k]
    BY JoinedList
  <2> QED BY <2>1, <2>2, InMessage
<1> QED BY <1>1, <1>2, <1>3, JoinedList

(* A message, or a part of one, that says nothing about rules *)
RuleGroups == {"Charging-Rule-Remove", "Charging-Rule-Install"}
Silent(avps) ==
  IsList(avps) /\ \A i \in DOMAIN avps : avps[i].name \notin RuleGroups

LEMMA SilentSaysNothing ==
  ASSUME NEW avps, Silent(avps), NEW group \in RuleGroups
  PROVE  RulesIn(avps, group) = {}
BY InMessage DEF Silent

LEMMA SilentJoined ==
  ASSUME NEW a, NEW b, Silent(a), Silent(b)
  PROVE  Silent(a \o b)
<1>1. IsList(a) /\ IsList(b)
  BY DEF Silent
<1>2. IsList(a \o b)
  BY <1>1, JoinedList
<1>3. ASSUME NEW k \in DOMAIN (a \o b)
      PROVE  (a \o b)[k].name \notin RuleGroups
  <2>1. \/ k \in DOMAIN a /\ (a \o b)[k] = a[k]
        \/ k - Len(a) \in DOMAIN b /\ (a \o b)[k] = b[k - Len(a)]
    BY <1>1, JoinedList
  <2> QED BY <2>1 DEF Silent
<1> QED BY <1>2, <1>3 DEF Silent

LEMMA SilentShort ==
  /\ Silent(<<>>)
  /\ \A name, value : name \notin RuleGroups => Silent(<<AVP(name, value)>>)
<1>1. ASSUME NEW name, NEW value, name \notin RuleGroups
      PROVE  Silent(<<AVP(name, value)>>)
  <2>1. PICK a : a = AVP(name, value)
    OBVIOUS
  <2>2. a.name = name
    BY <2>1 DEF AVP
  <2>3. IsList(<<a>>) /\ DOMAIN <<a>> = {1} /\ <<a>>[1] = a
    BY ShortLists
  <2>4. Silent(<<a>>)
    BY <1>1, <2>2, <2>3 DEF Silent
  <2> QED BY <2>1, <2>4
<1>2. Silent(<<>>)
  BY ShortLists DEF Silent
<1> QED BY <1>1, <1>2

LEMMA SilentOver ==
  ASSUME NEW list, IsList(list), NEW name, name \notin RuleGroups, NEW x,
         x = [i \in DOMAIN list |-> x[i]],
         \A i \in DOMAIN list : x[i].name = name
  PROVE  Silent(x)
BY ListOver DEF Silent

LEMMA TriggersSilent ==
  ASSUME NEW triggers, IsList(triggers)
  PROVE  Silent(EventTriggers(triggers))
<1> DEFINE x == EventTriggers(triggers)
<1>1. x = [i \in DOMAIN triggers |-> AVP("Event-Trigger", triggers[i])]
  BY DEF EventTriggers
<1> HIDE DEF x
<1>2. \A i \in DOMAIN triggers : x[i].name = "Event-Trigger"
  BY <1>1 DEF AVP
<1>3. x = [i \in DOMAIN triggers |-> x[i]]
  BY <1>1
<1> QED BY <1>2, <1>3, SilentOver DEF RuleGroups, x

LEMMA TriggerLists ==
  ASSUME NEW dialect, NEW keys
  PROVE  IsList(AnswerTriggers(dialect, keys)) /\ IsList(RefreshTriggers(dialect, keys))
<1>1. \A x, y : IsList(<<x, y>>)
  <2> SUFFICES ASSUME NEW x, NEW y PROVE IsList(<<x, y>>)
    OBVIOUS
  <2>1. <<x, y>> \in Seq({x, y})
    OBVIOUS
  <2> QED BY <2>1, SequenceList
<1>2. IsList(<<2, 101, 13, 0>>)
  <2>1. <<2, 101, 13, 0>> \in Seq(Nat)
    OBVIOUS
  <2> QED BY <2>1, SequenceList
<1> DEFINE a == IF dialect \in CoreDialect THEN <<2>> ELSE <<>>
           b == IF dialect = "UGW" THEN <<101>> ELSE <<>>
           c == IF dialect \in CoreDialect THEN <<13, 0>> ELSE <<>>
           d == IF keys THEN UsageTrigger(dialect) ELSE <<>>
           e == IF dialect \in CoreDialect THEN <<2, 101, 13, 0>> ELSE <<>>
<1>3. IsList(a) /\ IsList(b) /\ IsList(c) /\ IsList(d) /\ IsList(e)
  BY <1>1, <1>2, ShortLists DEF UsageTrigger
<1>4. /\ AnswerTriggers(dialect, keys) = a \o b \o c \o d
      /\ RefreshTriggers(dialect, keys) = e \o d
  BY DEF AnswerTriggers, RefreshTriggers
<1> HIDE DEF a, b, c, d, e
<1>5. IsList(a \o b)
  BY <1>3, JoinedList
<1>6. IsList((a \o b) \o c)
  BY <1>3, <1>5, JoinedList
<1>7. IsList(((a \o b) \o c) \o d)
  BY <1>3, <1>6, JoinedList
<1>8. IsList(e \o d)
  BY <1>3, JoinedList
<1> QED BY <1>4, <1>7, <1>8

LEMMA QuotasSilent ==
  ASSUME NEW quotas, IsFiniteSet(DOMAIN quotas), NEW needReport
  PROVE  Silent(MakeUMI(quotas, needReport))
<1> DEFINE with == {k \in DOMAIN quotas :
                     quotas[k].total \cup quotas[k].output \cup quotas[k].input # {}}
           granted == SetToSeq(with)
           x == MakeUMI(quotas, needReport)
<1>1. IsFiniteSet(with)
  BY FS_Subset
<1> HIDE DEF with
<1>2. IsList(granted)
  BY <1>1, SetList
<1>3. /\ x = [i \in DOMAIN granted |-> x[i]]
      /\ \A i \in DOMAIN granted : x[i].name = "Usage-Monitoring-Information"
  BY DEF MakeUMI, AVP, with
<1> HIDE DEF granted, x
<1> QED BY <1>2, <1>3, SilentOver DEF RuleGroups, x

LEMMA BearerSilent ==
  ASSUME NEW request
  PROVE  Silent(MakeDefaultEPSBearerQoS(request) \o MakeQoSInformation(request))
<1>1. Silent(MakeDefaultEPSBearerQoS(request))
  BY SilentShort DEF MakeDefaultEPSBearerQoS, RuleGroups
<1>2. Silent(MakeQoSInformation(request))
  BY SilentShort DEF MakeQoSInformation, RuleGroups
<1> QED BY <1>1, <1>2, SilentJoined

LEMMA SubscriptionSilent ==
  ASSUME NEW data
  PROVE  Silent(MakeSubscriptionId(data))
<1> DEFINE id(type, field) ==
             IF field = {} THEN <<>>
             ELSE <<AVP("Subscription-Id", <<AVP("Subscription-Id-Type", type),
                                             AVP("Subscription-Id-Data", The(field))>>)>>
<1>1. \A type, field : Silent(id(type, field))
  BY SilentShort DEF RuleGroups
<1>2. MakeSubscriptionId(data) = id("END_USER_IMSI", data.imsi)
                                   \o id("END_USER_E164", data.e164)
  BY DEF MakeSubscriptionId
<1> HIDE DEF id
<1> QED BY <1>1, <1>2, SilentJoined

(* The values of a request's AVPs, of a list or a part of it *)
LEMMA ValueList ==
  ASSUME NEW avps, IsList(avps), NEW name
  PROVE  IsList(Values(avps, name))
<1> DEFINE found == Picked(avps, {i \in DOMAIN avps : avps[i].name = name})
           x == Values(avps, name)
<1>1. IsList(found)
  BY PickedIsList
<1>2. x = [i \in DOMAIN found |-> found[i].value]
  BY DEF Values
<1> HIDE DEF found, x
<1> QED BY <1>1, <1>2, ListOver DEF x

LEMMA FeaturesSilent ==
  ASSUME NEW m \in DOMAIN Message
  PROVE  Silent(MakeSF(Info[m].features))
<1> DEFINE values == Values(Message[m], "Supported-Features")
           features == Features(Message[m])
           x == MakeSF(features)
<1>1. IsList(values)
  BY MessageAssumption, ValueList
<1>2. Info[m].features = features
  BY DEF Info, SessionInfo
<1>3. features = [i \in DOMAIN values |-> features[i]]
  BY DEF Features
<1> HIDE DEF values, features
<1>4. IsList(features)
  BY <1>1, <1>3, ListOver
<1>5. /\ x = [i \in DOMAIN features |-> x[i]]
      /\ \A i \in DOMAIN features : x[i].name = "Supported-Features"
  BY DEF MakeSF, AVP
<1> HIDE DEF x
<1>6. Silent(x)
  BY <1>4, <1>5, SilentOver DEF RuleGroups
<1> QED BY <1>2, <1>6 DEF x

LEMMA UsageList ==
  ASSUME NEW m \in DOMAIN Message
  PROVE  IsList(Request[m].usages)
<1> DEFINE values == Values(Message[m], "Usage-Monitoring-Information")
           usages == [i \in DOMAIN values |->
             LET g == values[i]
                 used == Inside(g, "Used-Service-Unit")
             IN  [key |-> Latest(g, "Monitoring-Key"),
                  input |-> Latest(used, "CC-Input-Octets"),
                  output |-> Latest(used, "CC-Output-Octets"),
                  total |-> Latest(used, "CC-Total-Octets")]]
<1>1. IsList(values)
  BY MessageAssumption, ValueList
<1>2. Request[m].usages = Usages(Message[m])
  BY DEF Request, RequestInfo
<1>3. Usages(Message[m]) = Picked(usages, {i \in DOMAIN usages : usages[i].key # {}})
  BY DEF Usages
<1>4. usages = [i \in DOMAIN values |-> usages[i]]
  OBVIOUS
<1> HIDE DEF values, usages
<1>5. IsList(usages)
  BY <1>1, <1>4, ListOver
<1> QED BY <1>2, <1>3, <1>5, PickedIsList
-----------------------------------------------------------------------------
(* The AVP that installs a rule starts with its name, whatever follows. *)
Begins(a, x) == IsList(a) /\ 1 \in DOMAIN a /\ a[1] = x

LEMMA BeginsJoined ==
  ASSUME NEW a, NEW x, Begins(a, x), NEW b, IsList(b)
  PROVE  Begins(a \o b, x)
<1>1. IsList(a) /\ 1 \in DOMAIN a /\ a[1] = x
  BY DEF Begins
<1> QED BY <1>1, JoinedList DEF Begins

LEMMA BeginsHead ==
  ASSUME NEW a, NEW x, Begins(a, x)
  PROVE  Head(a) = x
<1>1. a \in Seq(Range(a)) /\ a[1] = x
  BY ListSequence DEF Begins
<1> QED BY <1>1

LEMMA DefinitionNamed ==
  ASSUME NEW request, NEW r, Accounted(r), IsSet(r.dynamic)
  PROVE  /\ MakeCRD(request, r).name = "Charging-Rule-Definition"
         /\ Head(MakeCRD(request, r).value).value = r.name
<1> DEFINE a0 == AVP("Charging-Rule-Name", r.name)
           b1 == IfAny("Service-Identifier", r.service)
           b2 == IfAny("Flow-Status", r.flowStatus)
           b3 == IfAny("Rating-Group", r.ratingGroup)
           b4 == [i \in DOMAIN r.flows |-> FlowInformation(r.flows[i])]
           b5 == <<MakeQoSI(request, r)>>
           b6 == IfAny("Reporting-Level", r.reporting)
           b7 == IfAny("Online", r.online)
           b8 == IfAny("Offline", r.offline)
           b9 == IfAny("Metering-Method", r.metering)
           b10 == IfAny("Precedence", r.precedence)
           b11 == IfAny("Monitoring-Key", FirstOf(r.keys))
           b12 == RedirectServer(r)
<1>1. \A name, field : IsList(IfAny(name, field))
  BY ShortLists DEF IfAny
<1>2. IsList(b1) /\ IsList(b2) /\ IsList(b3) /\ IsList(b5) /\ IsList(b6)
      /\ IsList(b7) /\ IsList(b8) /\ IsList(b9) /\ IsList(b10) /\ IsList(b11)
  BY <1>1, ShortLists
<1>3. IsList(b4)
  <2> DEFINE x == b4
  <2>1. x = [i \in DOMAIN r.flows |-> x[i]]
    OBVIOUS
  <2>2. IsList(r.flows)
    BY DEF Accounted
  <2> HIDE DEF x
  <2>3. IsList(x)
    BY <2>1, <2>2, ListOver
  <2> QED BY <2>3 DEF x
<1>4. IsList(b12)
  BY ShortLists DEF RedirectServer
<1>5. MakeCRD(request, r) =
        AVP("Charging-Rule-Definition",
            <<a0>> \o b1 \o b2 \o b3 \o b4 \o b5 \o b6 \o b7 \o b8 \o b9
              \o b10 \o b11 \o b12)
  BY DEF MakeCRD
<1>6. Begins(<<a0>>, a0)
  BY ShortLists DEF Begins
<1>7. a0.value = r.name
  BY DEF AVP
<1> HIDE DEF a0, b1, b2, b3, b4, b5, b6, b7, b8, b9, b10, b11, b12
<1> DEFINE p1 == <<a0>> \o b1
           p2 == p1 \o b2
           p3 == p2 \o b3
           p4 == p3 \o b4
           p5 == p4 \o b5
           p6 == p5 \o b6
           p7 == p6 \o b7
           p8 == p7 \o b8
           p9 == p8 \o b9
           p10 == p9 \o b10
           p11 == p10 \o b11
           p12 == p11 \o b12
<1>8. MakeCRD(request, r) = AVP("Charging-Rule-Definition", p12)
  BY <1>5
<1>b1. Begins(p1, a0) BY <1>2, <1>6, BeginsJoined
<1> HIDE DEF p1
<1>b2. Begins(p2, a0) BY <1>2, <1>b1, BeginsJoined
<1> HIDE DEF p2
<1>b3. Begins(p3, a0) BY <1>2, <1>b2, BeginsJoined
<1> HIDE DEF p3
<1>b4. Begins(p4, a0) BY <1>3, <1>b3, BeginsJoined
<1> HIDE DEF p4
<1>b5. Begins(p5, a0) BY <1>2, <1>b4, BeginsJoined
<1> HIDE DEF p5
<1>b6. Begins(p6, a0) BY <1>2, <1>b5, BeginsJoined
<1> HIDE DEF p6
<1>b7. Begins(p7, a0) BY <1>2, <1>b6, BeginsJoined
<1> HIDE DEF p7
<1>b8. Begins(p8, a0) BY <1>2, <1>b7, BeginsJoined
<1> HIDE DEF p8
<1>b9. Begins(p9, a0) BY <1>2, <1>b8, BeginsJoined
<1> HIDE DEF p9
<1>b10. Begins(p10, a0) BY <1>2, <1>b9, BeginsJoined
<1> HIDE DEF p10
<1>b11. Begins(p11, a0) BY <1>2, <1>b10, BeginsJoined
<1> HIDE DEF p11
<1>b12. Begins(p12, a0) BY <1>4, <1>b11, BeginsJoined
<1> HIDE DEF p12
<1> QED BY <1>7, <1>8, <1>b12, BeginsHead DEF AVP

(* A rule is installed under its name, unless that is a group's. *)
LEMMA Installing ==
  ASSUME NEW request, NEW r, Accounted(r)
  PROVE  /\ \A n : Says(MakeCRD(request, r), <<"Charging-Rule-Name", n>>)
                  => n = r.name
         /\ r.name \notin Grouped =>
              Says(MakeCRD(request, r), <<"Charging-Rule-Name", r.name>>)
<1>1. CASE IsSet(r.dynamic)
  BY <1>1, DefinitionNamed DEF Says, Key, RuleKinds
<1>2. CASE ~IsSet(r.dynamic)
  <2>1. MakeCRD(request, r) = RuleNameAVP(r)
    BY <1>2 DEF MakeCRD
  <2>2. /\ RuleNameAVP(r).value = r.name
        /\ RuleNameAVP(r).name \in RuleKinds
        /\ r.name \notin Grouped => RuleNameAVP(r).name = "Charging-Rule-Name"
    BY DEF RuleNameAVP, AVP, RuleKinds, Accounted
  <2> QED BY <2>1, <2>2 DEF Says, Key, RuleKinds
<1> QED BY <1>1, <1>2
(* What a step that operates rules says of those that are accounted for *)
Operating(avps, active, rules) ==
  \A n : n \notin Unaccounted =>
    /\ <<"Charging-Rule-Name", n>> \in RulesIn(avps, "Charging-Rule-Remove")
         <=> n \in Closed(active)
    /\ <<"Charging-Rule-Name", n>> \in RulesIn(avps, "Charging-Rule-Install")
         <=> n \in New(rules)

LEMMA RemovalSays ==
  ASSUME NEW dialect \in GatewayDialect, NEW active, BareList(active)
  PROVE  /\ IsList(MakeCRR(dialect, active))
         /\ RulesIn(MakeCRR(dialect, active), "Charging-Rule-Install") = {}
         /\ \A n : <<"Charging-Rule-Name", n>>
                      \in RulesIn(MakeCRR(dialect, active), "Charging-Rule-Remove")
                    <=> n \in Closed(active)
<1> DEFINE gone == NotRelevant(active)
           inside == [i \in DOMAIN gone |-> RuleNameAVP(gone[i])]
           avp == AVP("Charging-Rule-Remove", inside)
           crr == MakeCRR(dialect, active)
<1>1. IsList(gone) /\ \A i \in DOMAIN gone : Bare(gone[i])
  BY PickedIsList DEF NotRelevant, BareList
<1>2. crr = IF gone = <<>> THEN <<>> ELSE <<avp>>
  BY DEF MakeCRR
<1>3. Closed(active) = {gone[i].name : i \in DOMAIN gone}
  BY DEF Closed, Names
<1>4. avp.name = "Charging-Rule-Remove" /\ avp.value = inside
  BY DEF AVP
<1> HIDE DEF gone, avp, crr
<1>5. CASE gone = <<>>
  <2>1. DOMAIN gone = {}
    BY <1>5
  <2>2. crr = <<>> /\ Closed(active) = {}
    BY <1>2, <1>3, <1>5, <2>1
  <2>3. \A group \in RuleGroups : RulesIn(crr, group) = {}
    BY <2>2, SilentShort, SilentSaysNothing
  <2> QED BY <2>2, <2>3, ShortLists DEF crr, RuleGroups
<1>6. CASE gone # <<>>
  <2>1. IsList(crr) /\ DOMAIN crr = {1} /\ crr[1] = avp
    BY <1>2, <1>6, ShortLists
  <2>2. RulesIn(crr, "Charging-Rule-Install") = {}
    BY <1>4, <2>1, InMessage
  <2>3. \A i \in DOMAIN gone : \A x :
          Says(inside[i], x) <=> x = <<"Charging-Rule-Name", gone[i].name>>
    <3>1. \A i \in DOMAIN gone : /\ inside[i].name = "Charging-Rule-Name"
                                 /\ inside[i].value = gone[i].name
      BY <1>1 DEF RuleNameAVP, AVP, Bare
    <3> HIDE DEF inside
    <3> QED BY <3>1 DEF Says, Key, RuleKinds
  <2>4. DOMAIN inside = DOMAIN gone
    OBVIOUS
  <2> HIDE DEF inside
  <2>5. ASSUME NEW n
        PROVE  <<"Charging-Rule-Name", n>> \in RulesIn(crr, "Charging-Rule-Remove")
                 <=> n \in Closed(active)
    <3>1. <<"Charging-Rule-Name", n>> \in RulesIn(crr, "Charging-Rule-Remove")
            <=> \E i \in DOMAIN inside :
                  Says(inside[i], <<"Charging-Rule-Name", n>>)
      BY <1>4, <2>1, InMessage
    <3>2. \A i \in DOMAIN gone :
            Says(inside[i], <<"Charging-Rule-Name", n>>) <=> n = gone[i].name
      BY <2>3
    <3> QED BY <1>3, <2>4, <3>1, <3>2
  <2> QED BY <2>1, <2>2, <2>5 DEF crr
<1> QED BY <1>5, <1>6

LEMMA InstallationSays ==
  ASSUME NEW dialect \in GatewayDialect, NEW network, NEW request,
         NEW rules, RuleList(rules)
  PROVE  /\ IsList(MakeCRI(dialect, network, request, rules))
         /\ RulesIn(MakeCRI(dialect, network, request, rules),
                    "Charging-Rule-Remove") = {}
         /\ \A n : n \notin Unaccounted =>
              (<<"Charging-Rule-Name", n>>
                  \in RulesIn(MakeCRI(dialect, network, request, rules),
                              "Charging-Rule-Install")
                 <=> n \in New(rules))
<1> DEFINE new == NotActive(rules)
           bearer == BearerIdentifier(network, request)
           crds == [i \in DOMAIN new |-> MakeCRD(request, new[i])]
           inside == bearer \o crds
           avp == AVP("Charging-Rule-Install", inside)
           cri == MakeCRI(dialect, network, request, rules)
<1>0. dialect # "SCE"
  BY DEF GatewayDialect, CoreDialect
<1>1. IsList(new) /\ \A i \in DOMAIN new : Accounted(new[i])
  BY PickedIsList DEF NotActive, RuleList
<1>2. cri = IF new = <<>> THEN <<>> ELSE <<avp>>
  BY <1>0 DEF MakeCRI
<1>3. New(rules) = {new[i].name : i \in DOMAIN new} \ {<<>>}
  BY DEF New, Names
<1>4. avp.name = "Charging-Rule-Install" /\ avp.value = inside
  BY DEF AVP
<1>5. IsList(bearer) /\ \A i \in DOMAIN bearer : bearer[i].name = "Bearer-Identifier"
  <2>1. CASE bearer = <<>>
    BY <2>1, ShortLists
  <2>2. CASE bearer = <<AVP("Bearer-Identifier", The(request.bearer))>>
    <3>1. PICK a : a = AVP("Bearer-Identifier", The(request.bearer))
      OBVIOUS
    <3>2. a.name = "Bearer-Identifier"
      BY <3>1 DEF AVP
    <3>3. bearer = <<a>>
      BY <2>2, <3>1
    <3> HIDE DEF bearer
    <3>4. IsList(bearer) /\ DOMAIN bearer = {1} /\ bearer[1] = a
      BY <3>3, ShortLists
    <3> QED BY <3>2, <3>4
  <2> QED BY <2>1, <2>2 DEF BearerIdentifier, IfAny
<1> HIDE DEF new, bearer, avp, cri
<1>6. crds = [i \in DOMAIN new |-> crds[i]]
      /\ \A i \in DOMAIN new : crds[i] = MakeCRD(request, new[i])
  OBVIOUS
<1> HIDE DEF crds
<1>7. IsList(crds) /\ DOMAIN crds = DOMAIN new
  BY <1>1, <1>6, ListOver
<1>8. CASE new = <<>>
  <2>1. DOMAIN new = {}
    BY <1>8
  <2>2. cri = <<>> /\ New(rules) = {}
    BY <1>2, <1>3, <1>8, <2>1
  <2>3. \A group \in RuleGroups : RulesIn(cri, group) = {}
    BY <2>2, SilentShort, SilentSaysNothing
  <2> QED BY <2>2, <2>3, ShortLists DEF cri, RuleGroups
<1>9. CASE new # <<>>
  <2>1. IsList(cri) /\ DOMAIN cri = {1} /\ cri[1] = avp
    BY <1>2, <1>9, ShortLists
  <2>2. RulesIn(cri, "Charging-Rule-Remove") = {}
    BY <1>4, <2>1, InMessage
  <2>3. ASSUME NEW n, n \notin Unaccounted
        PROVE  <<"Charging-Rule-Name", n>> \in RulesIn(cri, "Charging-Rule-Install")
                 <=> n \in New(rules)
    <3>0. PICK key : key = <<"Charging-Rule-Name", n>>
      OBVIOUS
    <3>1. key \in RulesIn(cri, "Charging-Rule-Install")
            <=> \E k \in DOMAIN inside : Says(inside[k], key)
      <4> HIDE DEF inside
      <4>1. key \in RulesIn(cri, "Charging-Rule-Install")
              <=> \E k \in DOMAIN cri :
                    /\ cri[k].name = "Charging-Rule-Install"
                    /\ \E i \in DOMAIN cri[k].value : Says(cri[k].value[i], key)
        BY InMessage
      <4> QED BY ONLY <4>1, <1>4, <2>1
    <3>2. key[1] = "Charging-Rule-Name" /\ key[2] = n
      BY <3>0
    <3>3. \A i \in DOMAIN new : Says(crds[i], key) <=> new[i].name = n
      <4>1. TAKE i \in DOMAIN new
      <4>2. Accounted(new[i]) /\ crds[i] = MakeCRD(request, new[i])
        BY <1>1, <1>6
      <4>3. n \notin Grouped
        BY <2>3 DEF Unaccounted
      <4>4. Says(crds[i], key) => new[i].name = n
        BY <3>0, <4>2, Installing
      <4>5. new[i].name = n => Says(crds[i], key)
        BY <3>0, <4>2, <4>3, Installing
      <4> QED BY <4>4, <4>5
    <3>4. \A k \in DOMAIN inside :
            \/ k \in DOMAIN bearer /\ inside[k] = bearer[k]
            \/ k - Len(bearer) \in DOMAIN crds /\ inside[k] = crds[k - Len(bearer)]
      BY <1>5, <1>7, JoinedList
    <3>5. \A i \in DOMAIN crds : \E k \in DOMAIN inside : inside[k] = crds[i]
      <4>1. TAKE i \in DOMAIN crds
      <4>2. IsList(bearer) /\ IsList(crds)
        BY <1>5, <1>7
      <4>3. \A j \in DOMAIN crds : /\ Len(bearer) + j \in DOMAIN (bearer \o crds)
                                   /\ (bearer \o crds)[Len(bearer) + j] = crds[j]
        BY ONLY <4>2, JoinedList
      <4> QED BY <4>3
    <3>6. \A k \in DOMAIN bearer : ~Says(bearer[k], key)
      BY <1>5 DEF Says, RuleKinds
    <3>7. n # <<>>
      BY <2>3 DEF Unaccounted
    <3> HIDE DEF inside
    <3>8. (\E k \in DOMAIN inside : Says(inside[k], key))
            <=> \E i \in DOMAIN new : new[i].name = n
      BY <1>7, <3>3, <3>4, <3>5, <3>6
    <3>9. n \in New(rules) <=> \E i \in DOMAIN new : new[i].name = n
      BY <1>3, <3>7
    <3> QED BY <3>0, <3>1, <3>8, <3>9
  <2> QED BY <2>1, <2>2, <2>3 DEF cri
<1> QED BY <1>8, <1>9
-----------------------------------------------------------------------------
(* The rules of a gateway and those of the cache, as RulesAgree compares   *)
(* them, and what a message and OperateRules make of both                  *)
Matches(installed, cached) ==
  \A n : n \notin Unaccounted =>
    (<<"Charging-Rule-Name", n>> \in installed <=> n \in cached)

Operated(cached, active, rules) == (cached \ Closed(active)) \cup New(rules)

LEMMA MatchingExchange ==
  ASSUME NEW installed, NEW cached, Matches(installed, cached),
         NEW avps, NEW active, NEW rules, Operating(avps, active, rules)
  PROVE  Matches(Applied(installed, avps), Operated(cached, active, rules))
BY DEF Matches, Operating, Applied, Operated

LEMMA SilentApplied ==
  ASSUME NEW installed, NEW avps, Silent(avps)
  PROVE  Applied(installed, avps) = installed
BY SilentSaysNothing DEF Applied, RuleGroups

(* A message, or a part of one, that carries out an OperateRules *)
Conveys(avps, active, rules) == IsList(avps) /\ Operating(avps, active, rules)

LEMMA AfterSilence ==
  ASSUME NEW a, Silent(a), NEW active, NEW rules,
         NEW b, Conveys(b, active, rules)
  PROVE  Conveys(a \o b, active, rules)
<1>1. IsList(a) /\ IsList(b)
  BY DEF Silent, Conveys
<1>2. \A group \in RuleGroups : RulesIn(a, group) = {}
  BY SilentSaysNothing
<1>3. \A group \in RuleGroups : RulesIn(a \o b, group) = RulesIn(b, group)
  BY <1>1, <1>2, JoinedMessages
<1>4. IsList(a \o b)
  BY <1>1, JoinedList
<1> QED BY <1>3, <1>4 DEF Conveys, Operating, RuleGroups

LEMMA BeforeSilence ==
  ASSUME NEW active, NEW rules, NEW a, Conveys(a, active, rules),
         NEW b, Silent(b)
  PROVE  Conveys(a \o b, active, rules)
<1>1. IsList(a) /\ IsList(b)
  BY DEF Silent, Conveys
<1>2. \A group \in RuleGroups : RulesIn(b, group) = {}
  BY SilentSaysNothing
<1>3. \A group \in RuleGroups : RulesIn(a \o b, group) = RulesIn(a, group)
  BY <1>1, <1>2, JoinedMessages
<1>4. IsList(a \o b)
  BY <1>1, JoinedList
<1> QED BY <1>3, <1>4 DEF Conveys, Operating, RuleGroups

LEMMA NothingPicked ==
  ASSUME NEW list, list = <<>>, NEW positions \in SUBSET (DOMAIN list)
  PROVE  DOMAIN Picked(list, positions) = {}
<1>1. IsList(list) /\ DOMAIN list = {}
  BY ShortLists
<1>2. \A j \in DOMAIN Picked(list, positions) :
        \E i \in positions : Picked(list, positions)[j] = list[i]
  BY <1>1, PickedIsList
<1> QED BY <1>1, <1>2

LEMMA NothingClosed == Closed(<<>>) = {}
<1>1. PICK list : list = <<>>
  OBVIOUS
<1>2. DOMAIN NotRelevant(list) = {}
  BY <1>1, NothingPicked DEF NotRelevant
<1> QED BY <1>1, <1>2 DEF Closed, Names

LEMMA NothingComes == New(<<>>) = {}
<1>1. PICK list : list = <<>>
  OBVIOUS
<1>2. DOMAIN NotActive(list) = {}
  BY <1>1, NothingPicked DEF NotActive
<1> QED BY <1>1, <1>2 DEF New, Names

LEMMA InstallsAlone ==
  ASSUME NEW dialect \in GatewayDialect, NEW network, NEW request,
         NEW rules, RuleList(rules)
  PROVE  Conveys(MakeCRI(dialect, network, request, rules), <<>>, rules)
BY InstallationSays, NothingClosed DEF Conveys, Operating

LEMMA RemovesAndInstalls ==
  ASSUME NEW dialect \in GatewayDialect, NEW network, NEW request,
         NEW active, BareList(active), NEW rules, RuleList(rules),
         NEW between, Silent(between)
  PROVE  /\ Conveys(MakeCRR(dialect, active)
                      \o MakeCRI(dialect, network, request, rules), active, rules)
         /\ Conveys(MakeCRR(dialect, active) \o between
                      \o MakeCRI(dialect, network, request, rules), active, rules)
<1> DEFINE crr == MakeCRR(dialect, active)
           cri == MakeCRI(dialect, network, request, rules)
<1>1. /\ IsList(crr)
      /\ RulesIn(crr, "Charging-Rule-Install") = {}
      /\ \A n : <<"Charging-Rule-Name", n>> \in RulesIn(crr, "Charging-Rule-Remove")
                 <=> n \in Closed(active)
  BY RemovalSays
<1>2. /\ IsList(cri)
      /\ RulesIn(cri, "Charging-Rule-Remove") = {}
      /\ \A n : n \notin Unaccounted =>
           (<<"Charging-Rule-Name", n>> \in RulesIn(cri, "Charging-Rule-Install")
              <=> n \in New(rules))
  BY InstallationSays
<1> HIDE DEF crr, cri
<1>3. /\ IsList(crr \o cri)
      /\ \A group : RulesIn(crr \o cri, group)
                      = RulesIn(crr, group) \cup RulesIn(cri, group)
  BY <1>1, <1>2, JoinedMessages
<1>4. Conveys(crr \o cri, active, rules)
  BY <1>1, <1>2, <1>3 DEF Conveys, Operating
<1>5. /\ IsList(crr \o between)
      /\ \A group \in RuleGroups : RulesIn(crr \o between, group) = RulesIn(crr, group)
  <2>1. IsList(between) /\ \A group \in RuleGroups : RulesIn(between, group) = {}
    BY SilentSaysNothing DEF Silent
  <2>2. /\ IsList(crr \o between)
        /\ \A group : RulesIn(crr \o between, group)
                        = RulesIn(crr, group) \cup RulesIn(between, group)
    BY <1>1, <2>1, JoinedMessages
  <2> QED BY <2>1, <2>2
<1>6. /\ IsList((crr \o between) \o cri)
      /\ \A group : RulesIn((crr \o between) \o cri, group)
                      = RulesIn(crr \o between, group) \cup RulesIn(cri, group)
  BY <1>2, <1>5, JoinedMessages
<1>7. /\ RulesIn((crr \o between) \o cri, "Charging-Rule-Install")
            = RulesIn(cri, "Charging-Rule-Install")
      /\ RulesIn((crr \o between) \o cri, "Charging-Rule-Remove")
            = RulesIn(crr, "Charging-Rule-Remove")
  BY <1>1, <1>2, <1>5, <1>6 DEF RuleGroups
<1>8. Conveys((crr \o between) \o cri, active, rules)
  BY <1>1, <1>2, <1>6, <1>7 DEF Conveys, Operating
<1> QED BY <1>4, <1>8 DEF crr, cri

(* The answers.  Of a handler they need that its rules are accounted for   *)
(* and that it grants finitely many quotas.                                *)
LEMMA InitialSays ==
  ASSUME NEW h, h.msg \in DOMAIN Message, NEW dialect \in GatewayDialect,
         RuleList(h.rules), IsFiniteSet(DOMAIN h.quotas)
  PROVE  Conveys(InitialAnswer(h, dialect), <<>>, h.rules)
<1> DEFINE r == Request[h.msg]
           a == MakeSF(Info[h.msg].features)
           b == IF dialect = "Procera"
                THEN EventTriggers(<<777>>) \o MakeSubscriptionId(h.data)
                ELSE <<>>
           c == MakeDefaultEPSBearerQoS(r)
           d == MakeQoSInformation(r)
           e == MakeUMI(h.quotas, FALSE)
           f == MakeCRI(dialect, h.data.network, r, h.rules)
           g == <<AVP("Bearer-Control-Mode", "UE_NW")>>
<1>1. Silent(a)
  BY FeaturesSilent
<1>2. Silent(b)
  <2>1. Silent(EventTriggers(<<777>>))
    BY ShortLists, TriggersSilent
  <2>2. Silent(EventTriggers(<<777>>) \o MakeSubscriptionId(h.data))
    BY <2>1, SubscriptionSilent, SilentJoined
  <2> QED BY <2>2, SilentShort
<1>3. Silent(c) /\ Silent(d)
  BY SilentShort DEF MakeDefaultEPSBearerQoS, MakeQoSInformation, RuleGroups
<1>4. Silent(e)
  BY QuotasSilent
<1>5. Conveys(f, <<>>, h.rules)
  BY InstallsAlone
<1>6. Silent(g)
  BY SilentShort DEF RuleGroups
<1>7. InitialAnswer(h, dialect) = a \o b \o c \o d \o e \o f \o g
  BY DEF InitialAnswer
<1> HIDE DEF a, b, c, d, e, f, g
<1>8. Silent(a \o b \o c)
  BY <1>1, <1>2, <1>3, SilentJoined
<1>9. Silent(a \o b \o c \o d \o e)
  BY <1>3, <1>4, <1>8, SilentJoined
<1>10. Conveys((a \o b \o c \o d \o e) \o f, <<>>, h.rules)
  BY <1>5, <1>9, AfterSilence
<1>11. Conveys(((a \o b \o c \o d \o e) \o f) \o g, <<>>, h.rules)
  BY <1>6, <1>10, BeforeSilence
<1> QED BY <1>7, <1>11

LEMMA UpdateSays ==
  ASSUME NEW h, h.msg \in DOMAIN Message, NEW dialect \in GatewayDialect,
         BareList(h.active), RuleList(h.rules), IsFiniteSet(DOMAIN h.quotas)
  PROVE  IF Operates(h) THEN Conveys(UpdateAnswer(h, dialect), h.active, h.rules)
                        ELSE Silent(UpdateAnswer(h, dialect))
<1> DEFINE r == Request[h.msg]
           a == IF "COPY_DEFBEARER" \in h.actions
                THEN MakeDefaultEPSBearerQoS(r) \o MakeQoSInformation(r) ELSE <<>>
           b == MakeCRR(dialect, h.active)
                  \o MakeCRI(dialect, h.data.network, r, h.rules)
           c == MakeUMI(h.quotas, FALSE)
<1>1. Silent(a)
  BY BearerSilent, SilentShort
<1>2. Conveys(b, h.active, h.rules)
  BY RemovesAndInstalls, SilentShort
<1>3. Silent(c)
  BY QuotasSilent
<1>4. UpdateAnswer(h, dialect) = a \o (IF Operates(h) THEN b ELSE <<>>) \o c
  BY DEF UpdateAnswer
<1> HIDE DEF a, b, c
<1>5. CASE Operates(h)
  <2>1. Conveys(a \o b, h.active, h.rules)
    BY <1>1, <1>2, AfterSilence
  <2>2. Conveys((a \o b) \o c, h.active, h.rules)
    BY <1>3, <2>1, BeforeSilence
  <2> QED BY <1>4, <1>5, <2>2
<1>6. CASE ~Operates(h)
  <2>1. Silent((a \o <<>>) \o c)
    BY <1>1, <1>3, SilentShort, SilentJoined
  <2> QED BY <1>4, <1>6, <2>1
<1> QED BY <1>5, <1>6

LEMMA TailSilent ==
  ASSUME NEW t
  PROVE  Silent(AnswerTail(t))
<1>1. \A dialect, keys : Silent(EventTriggers(AnswerTriggers(dialect, keys)))
  BY TriggerLists, TriggersSilent
<1>2. \E keys : \/ AnswerTail(t) = EventTriggers(AnswerTriggers(DialectOf[At(t)], keys))
                \/ AnswerTail(t) = <<>>
  BY DEF AnswerTail
<1> QED BY <1>1, <1>2, SilentShort

(* A RAR of the refresh thread *)
LEMMA RefreshSays ==
  ASSUME NEW dialect \in GatewayDialect, NEW keys, NEW quotas,
         IsFiniteSet(DOMAIN quotas), NEW active, BareList(active),
         NEW rules, RuleList(rules)
  PROVE  Conveys(EventTriggers(RefreshTriggers(dialect, keys))
                    \o MakeCRR(dialect, active) \o MakeUMI(quotas, FALSE)
                    \o MakeCRI(dialect, {}, EmptyRequest, rules), active, rules)
<1> DEFINE a == EventTriggers(RefreshTriggers(dialect, keys))
           b == MakeCRR(dialect, active)
           c == MakeUMI(quotas, FALSE)
           d == MakeCRI(dialect, {}, EmptyRequest, rules)
<1>1. Silent(a)
  BY TriggerLists, TriggersSilent
<1>2. Silent(c)
  BY QuotasSilent
<1>3. IsList(b) /\ IsList(d)
  BY RemovalSays, InstallationSays
<1>4. Conveys((b \o c) \o d, active, rules)
  BY <1>2, RemovesAndInstalls
<1>5. Conveys(a \o ((b \o c) \o d), active, rules)
  BY <1>1, <1>4, AfterSilence
<1>6. a \o ((b \o c) \o d) = ((a \o b) \o c) \o d
  <2>1. IsList(a) /\ IsList(c)
    BY <1>1, <1>2 DEF Silent
  <2> DEFINE S == Range(a) \cup Range(b) \cup Range(c) \cup Range(d)
  <2>2. a \in Seq(S) /\ b \in Seq(S) /\ c \in Seq(S) /\ d \in Seq(S)
    <3>1. \A x : IsList(x) => x \in Seq(Range(x))
      BY ListSequence
    <3>2. a \in Seq(Range(a)) /\ b \in Seq(Range(b)) /\ c \in Seq(Range(c))
          /\ d \in Seq(Range(d))
      BY <1>3, <2>1, <3>1
    <3> HIDE DEF a, b, c, d
    <3> QED BY <3>2
  <2> HIDE DEF S, a, b, c, d
  <2> QED BY <2>2
<1> QED BY <1>5, <1>6
-----------------------------------------------------------------------------
(* What the handlers and the stores hold: lists of rules that are          *)
(* accounted for and finite sets of names.  Before its answer is made a    *)
(* handler is Late from where its rules are looked for on.                 *)
Late == {"active", "load", "update", "uli", "rar", "rules"}
Early == {"find", "look", "fill", "insert", "linked", "ending", "remove",
          "get", "store"}

(* The handler of an initial request has no active rules, and installs     *)
(* rules only if it succeeds.                                              *)
Initiates(h) ==
  /\ h.active = <<>>
  /\ h.pc # "active"
  /\ h.pc # "send" => "OPERATE_RULE" \in h.actions
  /\ h.code # 2001 => h.rules = <<>> /\ h.pc # "load"
  /\ h.pc \in Early => h.rules = <<>>

HandData(h) ==
  /\ BareList(h.active) /\ BareList(h.old)
  /\ IsList(h.rules)
  /\ (h.pc # "idle" /\ DialectOf[SessionOf[h.msg]] # "SCE") => RuleList(h.rules)
  /\ IsFiniteSet(DOMAIN h.quotas)
  /\ h.pc = "rar" => h.todo \subseteq Procera
  /\ (h.pc # "idle" /\ Type[h.msg] = "INITIAL") => Initiates(h)

ClientData ==
  client.pc = "send" =>
    /\ BareList(client.active) /\ IsList(client.rules)
    /\ DialectOf[client.at] # "SCE" => RuleList(client.rules)

FiniteStores ==
  /\ DOMAIN rulesOf = Session /\ DOMAIN located = Session /\ DOMAIN queue = Session
  /\ \A s \in Session :
       /\ IsFiniteSet(rulesOf[s])
       /\ IsFiniteSet(located[s])
       /\ IsList(queue[s])
       /\ \A i \in DOMAIN queue[s] : IsFiniteSet(queue[s][i].opened)

DataInv == (\A t \in Thread : HandData(hand[t])) /\ ClientData /\ FiniteStores

LEMMA EmptyLists ==
  /\ BareList(<<>>) /\ RuleList(<<>>) /\ IsList(<<>>)
  /\ IsFiniteSet(DOMAIN <<>>) /\ IsFiniteSet({})
<1>1. IsList(<<>>) /\ DOMAIN <<>> = {}
  BY ShortLists
<1> QED BY <1>1, FS_EmptySet DEF BareList, RuleList

LEMMA IdleData ==
  ASSUME NEW h, h.active = <<>>, h.old = <<>>, h.rules = <<>>, h.quotas = <<>>,
         h.pc # "rar", (h.pc # "idle" /\ Type[h.msg] = "INITIAL") => Initiates(h)
  PROVE  HandData(h)
BY EmptyLists DEF HandData

LEMMA DataInitially == Init => DataInv
<1> SUFFICES ASSUME Init PROVE DataInv
  OBVIOUS
<1>1. HandData(Idle)
  BY IdleData DEF Idle
<1>2. ClientData
  BY DEF Init, ClientData, Resting
<1>3. FiniteStores
  BY EmptyLists DEF Init, FiniteStores
<1> QED BY <1>1, <1>2, <1>3 DEF Init, DataInv

-----------------------------------------------------------------------------
(* Most steps of a handler keep what it has gathered.                      *)
Carries(t) ==
  /\ hand'[t].active = hand[t].active /\ hand'[t].old = hand[t].old
  /\ hand'[t].rules = hand[t].rules /\ hand'[t].quotas = hand[t].quotas
  /\ hand'[t].actions = hand[t].actions

LEMMA Carrying ==
  ASSUME TypeInv, NEW t \in Thread
  PROVE  /\ Find(t) \/ Look(t)
               => Carries(t) /\ hand[t].pc \in Early /\ hand'[t].pc \in Early
         /\ Adopt(t) \/ Get(t) \/ Insert(t) \/ End(t) \/ Linked(t)
               => /\ Carries(t) /\ hand'[t].code = hand[t].code
                  /\ hand[t].pc \in Early /\ hand'[t].pc \in Early
         /\ CacheUpdate(t) => /\ Carries(t) /\ hand'[t].code = hand[t].code
                              /\ hand[t].pc \in Late
         /\ Store(t) =>
              /\ Carries(t) /\ hand'[t].code = hand[t].code
              /\ hand[t].pc \in Early
              /\ Type[hand[t].msg] = "INITIAL" =>
                   /\ hand'[t].pc # "active"
                   /\ hand'[t].code # 2001 => hand'[t].pc # "load"
         /\ \A served \in BOOLEAN : ListProcera(t, served) =>
              /\ Carries(t) /\ hand'[t].code = hand[t].code
              /\ hand[t].pc \in Late
              /\ hand'[t].todo \subseteq Procera
         /\ \A c \in Session, served \in BOOLEAN : EndChild(t, c, served) =>
              /\ Carries(t) /\ hand'[t].code = hand[t].code
              /\ hand[t].pc \in Early /\ hand'[t].pc \in Early
<1>0. DOMAIN hand = Thread /\ DOMAIN hand[t] = Fields
  BY DEF TypeInv, HandsType, HandType
<1>1. ASSUME Find(t) \/ Look(t)
      PROVE  Carries(t) /\ hand[t].pc \in Early /\ hand'[t].pc \in Early
  <2>1. ASSUME NoCore(t) PROVE Carries(t) /\ hand'[t].pc \in Early
    BY <1>0, <2>1 DEF NoCore, Inserts, Go, Carries, Fields, Early
  <2>2. ASSUME Find(t), ~NoCore(t) PROVE Carries(t) /\ hand'[t].pc \in Early
    BY <1>0, <2>2 DEF Find, Go, Carries, Fields, Early
  <2>3. ASSUME Look(t), ~NoCore(t) PROVE Carries(t) /\ hand'[t].pc \in Early
    BY <1>0, <2>3 DEF Look, Then, Go, Carries, Fields, Early
  <2>4. hand[t].pc \in {"find", "look"}
    BY <1>1 DEF Find, Look
  <2> QED BY <1>1, <2>1, <2>2, <2>3, <2>4 DEF Early
<1>2. ASSUME Adopt(t)
      PROVE  /\ Carries(t) /\ hand'[t].code = hand[t].code
             /\ hand[t].pc \in Early /\ hand'[t].pc \in Early
  BY <1>0, <1>2 DEF Adopt, Inserts, Go, Carries, Fields, Early
<1>3. ASSUME Get(t)
      PROVE  /\ Carries(t) /\ hand'[t].code = hand[t].code
             /\ hand[t].pc \in Early /\ hand'[t].pc \in Early
  BY <1>0, <1>3 DEF Get, Go, Carries, Fields, Early
<1>4. ASSUME Insert(t) \/ End(t)
      PROVE  /\ Carries(t) /\ hand'[t].code = hand[t].code
             /\ hand[t].pc \in Early /\ hand'[t].pc \in Early
  BY <1>0, <1>4 DEF Insert, End, Then, Go, Carries, Fields, Early
<1>5. ASSUME Linked(t)
      PROVE  /\ Carries(t) /\ hand'[t].code = hand[t].code
             /\ hand[t].pc \in Early /\ hand'[t].pc \in Early
  BY <1>0, <1>5 DEF Linked, Go, Carries, Fields, Early
<1>6. ASSUME CacheUpdate(t)
      PROVE  /\ Carries(t) /\ hand'[t].code = hand[t].code
             /\ hand[t].pc \in Late
  BY <1>0, <1>6 DEF CacheUpdate, Then, Go, Carries, Fields, Late
<1>7. ASSUME Store(t)
      PROVE  /\ Carries(t) /\ hand'[t].code = hand[t].code
             /\ hand[t].pc \in Early
             /\ Type[hand[t].msg] = "INITIAL" =>
                  /\ hand'[t].pc # "active"
                  /\ hand'[t].code # 2001 => hand'[t].pc # "load"
  BY <1>0, <1>7 DEF Store, Then, Go, Carries, Fields, AfterLoad, Early
<1>8. ASSUME NEW served \in BOOLEAN, ListProcera(t, served)
      PROVE  /\ Carries(t) /\ hand'[t].code = hand[t].code
             /\ hand[t].pc \in Late
             /\ hand'[t].todo \subseteq Procera
  <2>1. ProceraRows(At(t)) \subseteq Procera
    BY DEF ProceraRows
  <2> QED BY <1>0, <1>8, <2>1 DEF ListProcera, Go, Carries, Fields, Late
<1>9. ASSUME NEW c \in Session, NEW served \in BOOLEAN, EndChild(t, c, served)
      PROVE  /\ Carries(t) /\ hand'[t].code = hand[t].code
             /\ hand[t].pc \in Early /\ hand'[t].pc \in Early
  BY <1>0, <1>9 DEF EndChild, Go, Carries, Fields, Early
<1> QED BY <1>1, <1>2, <1>3, <1>4, <1>5, <1>6, <1>7, <1>8, <1>9

LEMMA CarriedData ==
  ASSUME NEW t \in Thread, HandData(hand[t]), Carries(t), NEW pcs, GoesOn(t, pcs),
         hand[t].pc \in Early \cup Late, hand'[t].pc \in Early \cup Late,
         hand'[t].pc = "rar" => hand'[t].todo \subseteq Procera,
         \/ hand'[t].code = hand[t].code
         \/ hand[t].pc \in Early /\ hand'[t].pc \in Early,
         hand'[t].pc \in Early => hand[t].pc \in Early,
         Type[hand[t].msg] = "INITIAL" =>
           /\ hand'[t].pc # "active"
           /\ hand'[t].code # 2001 => hand'[t].pc # "load"
  PROVE  HandData(hand'[t])
<1>1. hand'[t].msg = hand[t].msg
  BY DEF GoesOn
<1>2. ASSUME Type[hand[t].msg] = "INITIAL" PROVE Initiates(hand'[t])
  <2>1. Initiates(hand[t])
    BY <1>2 DEF HandData, Early, Late
  <2> QED BY <1>2, <2>1 DEF Initiates, Carries, Early, Late
<1> QED BY <1>1, <1>2 DEF HandData, Carries, Early, Late

(* The steps of handlers that leave the rules and the queue as they are    *)
LEMMA HandsData ==
  ASSUME DataInv, NEW t \in Thread, HandData(hand'[t]),
         \A u \in Thread \ {t} : hand'[u] = hand[u],
         UNCHANGED client, FiniteStores'
  PROVE  DataInv'
<1>1. ClientData'
  BY DEF DataInv, ClientData
<1>2. ASSUME NEW u \in Thread PROVE HandData(hand'[u])
  BY <1>2 DEF DataInv
<1>3. (\A u \in Thread : HandData(hand[u]))'
  BY <1>2
<1> QED BY <1>1, <1>3 DEF DataInv

LEMMA FindData ==
  ASSUME TypeInv, DataInv, NEW t \in Thread,
         \/ Find(t) \/ Look(t) \/ Adopt(t) \/ Get(t) \/ Insert(t) \/ Linked(t)
         \/ CacheUpdate(t)
         \/ \E served \in BOOLEAN : ListProcera(t, served)
         \/ \E c \in Session, served \in BOOLEAN : EndChild(t, c, served)
  PROVE  DataInv'
<1>1. UNCHANGED <<client, rulesOf, located, queue>>
  BY DEF Find, Look, Adopt, Get, Insert, Linked, CacheUpdate, ListProcera,
         EndChild, Unmoved, ruleVars, database
<1>2. FiniteStores'
  BY <1>1 DEF DataInv, FiniteStores
<1>3. HandData(hand[t])
  BY DEF DataInv
<1>4. CASE Find(t) \/ Look(t) \/ Adopt(t)
  <2>1. GoesOn(t, {"look", "fill", "insert", "store"})
    BY <1>4, Going
  <2>2. HandData(hand'[t])
    BY <1>3, <1>4, <2>1, Carrying, CarriedData DEF Early, Late
  <2> QED BY <1>1, <1>2, <2>1, <2>2, HandsData DEF GoesOn
<1>5. CASE Get(t)
  <2>1. GoesOn(t, {"store", "find", "load"})
    BY <1>5, Going
  <2>2. HandData(hand'[t])
    BY <1>3, <1>5, <2>1, Carrying, CarriedData DEF Early, Late
  <2> QED BY <1>1, <1>2, <2>1, <2>2, HandsData DEF GoesOn
<1>6. CASE Insert(t)
  <2>1. GoesOn(t, {"store"})
    BY <1>6, Going
  <2>2. HandData(hand'[t])
    BY <1>3, <1>6, <2>1, Carrying, CarriedData DEF Early, Late
  <2> QED BY <1>1, <1>2, <2>1, <2>2, HandsData DEF GoesOn
<1>7. CASE Linked(t) \/ \E c \in Session, served \in BOOLEAN : EndChild(t, c, served)
  <2>1. GoesOn(t, {"remove", "ending"})
    BY <1>7, Going
  <2>2. HandData(hand'[t])
    BY <1>3, <1>7, <2>1, Carrying, CarriedData DEF Early, Late
  <2> QED BY <1>1, <1>2, <2>1, <2>2, HandsData DEF GoesOn
<1>8. CASE CacheUpdate(t)
  <2>1. GoesOn(t, {"uli", "rules"}) /\ hand'[t].pc \in {"uli", "rules"}
    BY <1>8, Going DEF GoesOn
  <2>2. HandData(hand'[t])
    BY <1>3, <1>8, <2>1, Carrying, CarriedData DEF Early, Late
  <2> QED BY <1>1, <1>2, <2>1, <2>2, HandsData DEF GoesOn
<1>9. CASE \E served \in BOOLEAN : ListProcera(t, served)
  <2>1. GoesOn(t, {"rules", "rar"}) /\ hand'[t].pc \in {"rules", "rar"}
    BY <1>9, Going DEF GoesOn
  <2>2. HandData(hand'[t])
    BY <1>3, <1>9, <2>1, Carrying, CarriedData DEF Early, Late
  <2> QED BY <1>1, <1>2, <2>1, <2>2, HandsData DEF GoesOn
<1> QED BY <1>4, <1>5, <1>6, <1>7, <1>8, <1>9
-----------------------------------------------------------------------------
(* The stores stay finite.                                                 *)
LEMMA FiniteNames ==
  ASSUME NEW rules, IsList(rules)
  PROVE  /\ IsFiniteSet(Names(rules))
         /\ IsFiniteSet(New(rules))
<1>1. ASSUME NEW x, IsList(x) PROVE IsFiniteSet(Names(x))
  <2> DEFINE y == [i \in DOMAIN x |-> x[i].name]
  <2>1. IsList(y) /\ DOMAIN y = DOMAIN x
    BY <1>1, ListOver
  <2>2. \A n \in Names(x) : \E i \in DOMAIN y : y[i] = n
    BY DEF Names
  <2> HIDE DEF y
  <2> QED BY <2>1, <2>2, FiniteList
<1>2. IsList(NotActive(rules))
  BY PickedIsList DEF NotActive
<1>3. IsFiniteSet(Names(rules)) /\ IsFiniteSet(Names(NotActive(rules)))
  BY <1>1, <1>2
<1> QED BY <1>3, FS_Subset DEF New

FiniteQueue ==
  /\ DOMAIN queue = Session
  /\ \A s \in Session :
       /\ IsList(queue[s])
       /\ \A i \in DOMAIN queue[s] : IsFiniteSet(queue[s][i].opened)

LEMMA EnqueuedFinite ==
  ASSUME FiniteStores, NEW s \in Session, NEW q, Enqueue(s, q),
         IsFiniteSet(q.opened)
  PROVE  FiniteQueue'
<1>1. FiniteQueue
  BY DEF FiniteStores, FiniteQueue
<1>2. CASE UNCHANGED queue
  BY <1>1, <1>2 DEF FiniteQueue
<1>3. CASE queue' = [queue EXCEPT ![s] = Append(@, q)]
  <2> DEFINE list == queue[s]
             S == Range(list) \cup {q}
  <2>1. list \in Seq(Range(list)) /\ DOMAIN list = 1..Len(list) /\ Len(list) \in Nat
    BY <1>1, ListSequence DEF FiniteQueue
  <2>2. \A i \in DOMAIN list : IsFiniteSet(list[i].opened)
    BY <1>1 DEF FiniteQueue
  <2>3. DOMAIN queue' = Session
    BY <1>1, <1>3 DEF FiniteQueue
  <2>4. queue'[s] = Append(list, q)
    BY <1>1, <1>3 DEF FiniteQueue
  <2> HIDE DEF list
  <2>5. list \in Seq(S)
    BY <2>1
  <2>6. /\ Append(list, q) \in Seq(S)
        /\ DOMAIN Append(list, q) = DOMAIN list \cup {Len(list) + 1}
        /\ Append(list, q)[Len(list) + 1] = q
        /\ \A i \in DOMAIN list : Append(list, q)[i] = list[i]
    BY <2>5
  <2>7. IsList(Append(list, q))
    BY <2>6, SequenceList
  <2>8. \A i \in DOMAIN Append(list, q) : IsFiniteSet(Append(list, q)[i].opened)
    BY <2>2, <2>6
  <2>9. \A r \in Session \ {s} : queue'[r] = queue[r]
    BY <1>1, <1>3 DEF FiniteQueue
  <2>10. \A r \in Session :
           /\ IsList(queue'[r])
           /\ \A i \in DOMAIN queue'[r] : IsFiniteSet(queue'[r][i].opened)
    BY <1>1, <2>4, <2>7, <2>8, <2>9 DEF FiniteQueue
  <2> QED BY <2>3, <2>10 DEF FiniteQueue
<1> QED BY <1>2, <1>3 DEF Enqueue

FiniteRules == DOMAIN rulesOf = Session /\ \A s \in Session : IsFiniteSet(rulesOf[s])

LEMMA ExchangedFinite ==
  ASSUME FiniteStores, NEW s, NEW gone, NEW added, IsFiniteSet(added),
         rulesOf' = Exchanged(s, gone, added)
  PROVE  FiniteRules'
<1>1. /\ DOMAIN rulesOf = Session
      /\ \A r \in Session : IsFiniteSet(rulesOf[r])
  BY DEF FiniteStores
<1>2. \A r \in Session : IsFiniteSet((rulesOf[r] \ gone) \cup added)
  <2> SUFFICES ASSUME NEW r \in Session
               PROVE  IsFiniteSet((rulesOf[r] \ gone) \cup added)
    OBVIOUS
  <2>1. IsFiniteSet(rulesOf[r] \ gone)
    BY <1>1, FS_Subset
  <2> QED BY <2>1, FS_Union
<1>3. DOMAIN rulesOf' = Session
  BY <1>1 DEF Exchanged
<1>4. \A r \in Session : \/ rulesOf'[r] = rulesOf[r]
                         \/ rulesOf'[r] = (rulesOf[r] \ gone) \cup added
  BY <1>1 DEF Exchanged
<1>5. \A r \in Session : IsFiniteSet(rulesOf'[r])
  BY <1>1, <1>2, <1>4
<1> QED BY <1>3, <1>5 DEF FiniteRules

LEMMA OperatedFinite ==
  ASSUME FiniteStores, NEW s \in Session, NEW active, NEW rules, IsList(rules),
         OperateRules(s, active, rules), UNCHANGED located
  PROVE  FiniteStores'
<1>1. IsFiniteSet(New(rules))
  BY FiniteNames
<1>2. FiniteRules'
  BY <1>1, ExchangedFinite DEF OperateRules
<1> DEFINE q == [NoStatement EXCEPT
                   !.closed = {n \in Closed(active) : IsPlace(n)},
                   !.opened = {n \in New(rules) : IsPlace(n)}]
<1>3. q.opened = {n \in New(rules) : IsPlace(n)}
  BY DEF NoStatement
<1>4. Enqueue(s, q)
  BY DEF OperateRules
<1> HIDE DEF q
<1>5. IsFiniteSet(q.opened)
  <2>1. q.opened \in SUBSET New(rules)
    BY <1>3
  <2> QED BY <1>1, <2>1, FS_Subset
<1>6. FiniteQueue'
  BY <1>4, <1>5, EnqueuedFinite
<1> QED BY <1>2, <1>6 DEF FiniteStores, FiniteRules, FiniteQueue

LEMMA ForgottenFinite ==
  ASSUME FiniteStores, NEW s, rulesOf' = Forgotten(s)
  PROVE  FiniteRules'
<1>1. /\ DOMAIN rulesOf = Session
      /\ \A r \in Session : IsFiniteSet(rulesOf[r])
  BY DEF FiniteStores
<1>2. DOMAIN rulesOf' = Session
  BY <1>1 DEF Forgotten
<1>3. \A r \in Session : rulesOf'[r] = rulesOf[r] \/ rulesOf'[r] = {}
  BY <1>1 DEF Forgotten
<1> QED BY <1>1, <1>2, <1>3, FS_EmptySet DEF FiniteRules
-----------------------------------------------------------------------------
LEMMA PlainStatements ==
  /\ \A type, closed : Statement(type, closed).opened = {}
  /\ [NoStatement EXCEPT !.row = "end"].opened = {}
<1>1. NoStatement.opened = {} /\ DOMAIN NoStatement = {"row", "all", "closed", "opened"}
  BY DEF NoStatement
<1>2. ASSUME NEW type, NEW closed PROVE Statement(type, closed).opened = {}
  BY <1>1 DEF Statement
<1> QED BY <1>1, <1>2

LEMMA StoreData ==
  ASSUME TypeInv, DataInv, NEW t \in Thread, Store(t)
  PROVE  DataInv'
<1>1. GoesOn(t, {"load", "active", "update", "uli", "rules"})
  BY GoingToLoad
<1>2. HandData(hand[t]) /\ hand'[t].pc \in Late \ {"rar"}
  BY <1>1 DEF DataInv, GoesOn, Late
<1>3. HandData(hand'[t])
  <2>1. Late \cap Early = {}
    BY DEF Late, Early
  <2> QED BY <1>1, <1>2, <2>1, Carrying, CarriedData
<1>4. At(t) \in Session
  BY HandTypes DEF Store
<1>5. FiniteStores /\ UNCHANGED <<located, client>>
  BY DEF Store, DataInv
<1>6. FiniteRules'
  BY <1>5, ExchangedFinite, FS_EmptySet DEF Store
<1>7. FiniteQueue'
  <2>1. PICK q : Enqueue(At(t), q) /\ q.opened = {}
    BY PlainStatements DEF Store
  <2> QED BY <1>4, <1>5, <2>1, EnqueuedFinite, FS_EmptySet
<1>8. FiniteStores'
  BY <1>5, <1>6, <1>7 DEF FiniteStores, FiniteRules, FiniteQueue
<1> QED BY <1>1, <1>3, <1>5, <1>8, HandsData DEF GoesOn

LEMMA EndData ==
  ASSUME TypeInv, DataInv, NEW t \in Thread, End(t)
  PROVE  DataInv'
<1>1. GoesOn(t, {"store"})
  BY Going
<1>2. HandData(hand[t])
  BY DEF DataInv
<1>3. HandData(hand'[t])
  <2>1. /\ Carries(t) /\ hand'[t].code = hand[t].code
        /\ hand[t].pc \in Early /\ hand'[t].pc \in Early
    BY Carrying
  <2>2. hand'[t].pc = "store"
    BY <1>1 DEF GoesOn
  <2> QED BY <1>1, <1>2, <2>1, <2>2, CarriedData
<1>4. FiniteStores /\ UNCHANGED <<located, queue, client>>
  BY DEF End, DataInv, database
<1>5. FiniteRules'
  BY <1>4, ForgottenFinite DEF End, RemoveSession
<1>6. FiniteStores'
  BY <1>4, <1>5 DEF FiniteStores, FiniteRules
<1> QED BY <1>1, <1>3, <1>4, <1>6, HandsData DEF GoesOn

LEMMA ActiveData ==
  ASSUME TypeInv, DataInv, NEW t \in Thread, Active(t)
  PROVE  DataInv'
<1>1. GoesOn(t, {"store", "find", "load"})
  BY Going
<1>2. HandData(hand[t]) /\ DOMAIN hand[t] = Fields /\ DOMAIN hand = Thread
  BY DEF DataInv, TypeInv, HandsType, HandType
<1>3. FiniteStores /\ UNCHANGED <<located, queue, rulesOf, client>>
  BY DEF Active, DataInv, Unmoved, database, ruleVars
<1>4. BareList(ActiveRules(At(t)))
  <2>1. At(t) \in Session
    BY HandTypes DEF Active
  <2> QED BY <1>3, <2>1, ActiveList DEF FiniteStores
<1>5. /\ hand'[t].active = ActiveRules(At(t)) /\ hand'[t].pc = "load"
      /\ hand'[t].rules = hand[t].rules /\ hand'[t].old = hand[t].old
      /\ hand'[t].quotas = hand[t].quotas /\ hand'[t].msg = hand[t].msg
      /\ hand[t].pc = "active"
  BY <1>2 DEF Active, Go, Fields
<1>6. Type[hand[t].msg] # "INITIAL"
  BY <1>2, <1>5 DEF HandData, Initiates
<1>7. HandData(hand'[t])
  BY <1>2, <1>4, <1>5, <1>6 DEF HandData
<1>8. FiniteStores'
  BY <1>3 DEF FiniteStores
<1> QED BY <1>1, <1>3, <1>7, <1>8, HandsData DEF GoesOn

-----------------------------------------------------------------------------
(* The lists of names that are loaded                                      *)
LEMMA ReadLists ==
  ASSUME TypeInv, NEW owner \in BOOLEAN, NEW names \in Reads(owner)
  PROVE  IsList(names)
<1> DEFINE list == IF owner THEN Profile ELSE <<>>
<1>1. IsList(list)
  BY ProfileAssumption, ShortLists DEF TypeInv, RestType, Profile
<1>2. names \in {a \o b : a \in Part(list), b \in Part(list)}
  BY DEF Reads
<1> HIDE DEF list
<1>3. list \in Seq(Range(list)) /\ Len(list) \in Nat
  BY <1>1, ListSequence
<1>4. \A a \in Part(list) : IsList(a)
  <2> SUFFICES ASSUME NEW i \in 0..Len(list)
               PROVE  IsList(SubSeq(list, 1, i))
    BY DEF Part
  <2>1. SubSeq(list, 1, i) \in Seq(Range(list))
    BY <1>3
  <2> QED BY <2>1, SequenceList
<1>5. PICK a \in Part(list), b \in Part(list) : names = a \o b
  BY <1>2
<1>6. IsList(a) /\ IsList(b)
  BY <1>4
<1> QED BY <1>5, <1>6, JoinedList

LEMMA DefaultLists ==
  ASSUME NEW h
  PROVE  IsList(DefaultRules(h))
<1> DEFINE first == Picked(DefaultRule, {i \in Added(DefaultRule) :
                      \A j \in Added(DefaultRule) :
                        j < i => DefaultRule[j].name # DefaultRule[i].name})
           rules == Configured(DefaultRule)
<1>1. IsList(first)
  <2>1. IsList(DefaultRule)
    BY RuleAssumption
  <2>2. {i \in Added(DefaultRule) :
           \A j \in Added(DefaultRule) :
             j < i => DefaultRule[j].name # DefaultRule[i].name}
          \in SUBSET (DOMAIN DefaultRule)
    BY DEF Added
  <2> QED BY <2>1, <2>2, PickedIsList
<1>2. rules = [i \in DOMAIN first |->
                 [name |-> first[i].name,
                  conditions |-> Conditions(DefaultRule, first[i].name)]]
  BY DEF Configured
<1> HIDE DEF first, rules
<1>3. IsList(rules)
  BY <1>1, <1>2, ListOver
<1>4. ASSUME NEW list, IsList(list), NEW rat, NEW sgsn, NEW ipcan, NEW dialect
      PROVE  IsList(DefaultRuleList(list, rat, sgsn, ipcan, dialect))
  <2> DEFINE fits(rule) ==
               \A c \in Checked(rat, sgsn, ipcan, dialect) :
                 CheckParameter(rule.conditions, c[1], c[2])
             selected == Picked(list, {i \in DOMAIN list : fits(list[i])})
             x == DefaultRuleList(list, rat, sgsn, ipcan, dialect)
  <2>1. IsList(selected)
    BY <1>4, PickedIsList
  <2>2. x = [i \in DOMAIN selected |-> selected[i].name]
    BY DEF DefaultRuleList
  <2> HIDE DEF selected, x
  <2>3. IsList(x)
    BY <2>1, <2>2, ListOver
  <2> QED BY <2>3 DEF x
<1>5. IsList(DefaultRuleList(rules, h.data.rat, h.data.sgsn, h.data.ipcan,
                             DialectOf[SessionOf[h.msg]]))
  BY <1>3, <1>4
<1> QED BY <1>5 DEF DefaultRules, rules

LEMMA QuotaFinite ==
  ASSUME NEW h, h.msg \in DOMAIN Message, NEW keys
  PROVE  /\ IsFiniteSet(DOMAIN Granted(ReportedKeys(h), keys))
         /\ IsFiniteSet(DOMAIN DefaultQuota(Request[h.msg].usages))
         /\ IsFiniteSet(DOMAIN Granted({}, keys))
<1> DEFINE usages == Request[h.msg].usages
           all == {The(usages[i].key) : i \in DOMAIN usages}
<1>1. IsFiniteSet(all)
  <2> DEFINE y == [i \in DOMAIN usages |-> The(usages[i].key)]
  <2>1. IsList(usages)
    BY UsageList
  <2>2. \A k \in all : \E i \in DOMAIN y : y[i] = k
    OBVIOUS
  <2> HIDE DEF usages, all
  <2>3. IsList(y)
    BY <2>1, ListOver
  <2> HIDE DEF y
  <2> QED BY <2>2, <2>3, FiniteList
<1>2. ReportedKeys(h) \in SUBSET all
  BY DEF ReportedKeys
<1>3. DOMAIN DefaultQuota(usages) = all
  BY DEF DefaultQuota
<1> HIDE DEF usages, all
<1>4. IsFiniteSet(ReportedKeys(h)) /\ IsFiniteSet(keys \cap DOMAIN Quota)
  <2>1. IsFiniteSet(DOMAIN Quota)
    BY RuleAssumption
  <2>2. keys \cap DOMAIN Quota \in SUBSET (DOMAIN Quota)
    OBVIOUS
  <2> QED BY <1>1, <1>2, <2>1, <2>2, FS_Subset
<1>5. IsFiniteSet(ReportedKeys(h) \cup (keys \cap DOMAIN Quota))
  BY <1>4, FS_Union
<1>6. \A reported : DOMAIN Granted(reported, keys)
                      = reported \cup (keys \cap DOMAIN Quota)
  BY DEF Granted
<1>7. {} \cup (keys \cap DOMAIN Quota) = keys \cap DOMAIN Quota
  OBVIOUS
<1> QED BY <1>1, <1>3, <1>4, <1>5, <1>6, <1>7 DEF usages
-----------------------------------------------------------------------------
(* What the worker, or no worker, leaves in a handler                      *)
Gathers(h, g) ==
  /\ g.active = h.active /\ g.old = h.old /\ g.code = h.code /\ g.msg = h.msg
  /\ h.actions \subseteq g.actions
  /\ IsList(g.rules)
  /\ DialectOf[SessionOf[h.msg]] # "SCE" => RuleList(g.rules)
  /\ IsFiniteSet(DOMAIN g.quotas)

LEMMA GatheredData ==
  ASSUME TypeInv, DataInv, NEW t \in Thread, hand[t].pc = "load",
         NEW names, IsList(names), NEW asked \in BOOLEAN
  PROVE  Gathers(hand[t], Gathered(t, names, asked))
<1> DEFINE h == hand[t]
           g == Gathered(t, names, asked)
           dialect == DialectOf[At(t)]
           actions == IF asked THEN h.actions \cup {"OPERATE_RULE"} ELSE h.actions
           loaded == LoadRuleInfo(Known, names, dialect, <<>>)
           marked == IF Type[h.msg] = "INITIAL" THEN loaded
                     ELSE SelectActive(loaded, h.active)
           none == Granted(ReportedKeys(h), {})
           some == Granted(ReportedKeys(h), MonitoringKeys(marked))
<1>1. DOMAIN h = Fields /\ h.msg \in DOMAIN Message /\ HandData(h)
  BY HandTypes DEF DataInv
<1>2. IsList(loaded) /\ (dialect # "SCE" => RuleList(loaded))
  BY LoadedList, EmptyLists
<1>3. IsList(marked) /\ (dialect # "SCE" => RuleList(marked))
  <2>1. /\ IsList(SelectActive(loaded, h.active))
        /\ RuleList(loaded) => RuleList(SelectActive(loaded, h.active))
    BY <1>2, SelectedActive
  <2> HIDE DEF loaded
  <2> QED BY <1>2, <2>1
<1>4. RuleList(Additional(h)) /\ IsList(Additional(h))
  BY AdditionalList DEF RuleList
<1>5. /\ IsList(Additional(h) \o marked)
      /\ dialect # "SCE" => RuleList(Additional(h) \o marked)
  BY <1>3, <1>4, JoinedList, JoinedRules
<1>6. IsFiniteSet(DOMAIN none) /\ IsFiniteSet(DOMAIN some)
  BY <1>1, QuotaFinite
<1>7. g = IF Type[h.msg] = "TERMINATION" \/ "OPERATE_RULE" \notin actions
          THEN [h EXCEPT !.quotas = none]
          ELSE [h EXCEPT !.rules = Additional(h) \o marked,
                         !.actions = actions, !.quotas = some]
  BY DEF Gathered
<1>8. /\ IsList(h.rules) /\ (dialect # "SCE" => RuleList(h.rules))
  BY <1>1 DEF HandData, At
<1>9. h.actions \subseteq actions
  OBVIOUS
<1> HIDE DEF none, some, marked, g, actions
<1>10. /\ g.active = h.active /\ g.old = h.old /\ g.code = h.code /\ g.msg = h.msg
       /\ \/ g.actions = h.actions \/ g.actions = actions
       /\ \/ g.rules = h.rules \/ g.rules = Additional(h) \o marked
       /\ \/ g.quotas = none \/ g.quotas = some
  BY <1>1, <1>7 DEF Fields
<1> HIDE DEF h
<1> QED BY <1>5, <1>6, <1>8, <1>9, <1>10 DEF Gathers, At, g, h

LEMMA DefaultData ==
  ASSUME TypeInv, DataInv, NEW t \in Thread, hand[t].pc = "load"
  PROVE  Gathers(hand[t], Defaults(t))
<1> DEFINE h == hand[t]
           g == Defaults(t)
           dialect == DialectOf[At(t)]
           first == IF "OPERATE_RULE" \in h.actions THEN Additional(h) ELSE <<>>
           loaded == LoadRuleInfo(Known, DefaultRules(h), dialect, first)
           quotas == DefaultQuota(Request[h.msg].usages)
<1>1. DOMAIN h = Fields /\ h.msg \in DOMAIN Message /\ HandData(h)
  BY HandTypes DEF DataInv
<1>2. RuleList(first) /\ IsList(first)
  BY AdditionalList, EmptyLists DEF RuleList
<1>3. IsList(DefaultRules(h))
  BY DefaultLists
<1> HIDE DEF first
<1>4. IsList(loaded) /\ (dialect # "SCE" => RuleList(loaded))
  BY <1>2, <1>3, LoadedList
<1>5. IsFiniteSet(DOMAIN quotas)
  BY <1>1, QuotaFinite
<1>6. g = IF Type[h.msg] = "INITIAL" THEN [h EXCEPT !.rules = loaded]
          ELSE IF Type[h.msg] = "UPDATE"
          THEN [h EXCEPT !.rules = first, !.quotas = quotas]
          ELSE h
  BY DEF Defaults, first
<1>7. /\ IsList(h.rules) /\ (dialect # "SCE" => RuleList(h.rules))
      /\ IsFiniteSet(DOMAIN h.quotas)
  BY <1>1 DEF HandData, At
<1> HIDE DEF loaded, g, quotas
<1>8. /\ g.active = h.active /\ g.old = h.old /\ g.code = h.code /\ g.msg = h.msg
      /\ g.actions = h.actions
      /\ g.rules \in {h.rules, loaded, first}
      /\ g.quotas \in {h.quotas, quotas}
  BY <1>1, <1>6 DEF Fields
<1> HIDE DEF h
<1> QED BY <1>2, <1>4, <1>5, <1>7, <1>8 DEF Gathers, At, g, h

LEMMA LoadData ==
  ASSUME TypeInv, DataInv, NEW t \in Thread, Load(t)
  PROVE  DataInv'
<1> DEFINE h == hand[t]
<1>1. /\ h.pc = "load" /\ DOMAIN h = Fields /\ DOMAIN hand = Thread
      /\ h.data.owner \in BOOLEAN /\ HandData(h)
  BY HandTypes DEF Load, TypeInv, HandsType, DataType, DataInv
<1>2. FiniteStores' /\ UNCHANGED client
  BY DEF Load, database, ruleVars, DataInv, FiniteStores
<1>3. \A names \in Reads(h.data.owner) \cup {<<>>} : IsList(names)
  BY <1>1, ReadLists, EmptyLists
<1>4. \/ \E names \in Reads(h.data.owner) \cup {<<>>}, asked \in BOOLEAN :
           Loaded(t, Gathered(t, names, asked))
      \/ Loaded(t, Defaults(t))
  BY DEF Load
<1>5. \E g : DOMAIN g = Fields /\ Gathers(h, g) /\ Loaded(t, g)
  <2>1. ASSUME NEW names \in Reads(h.data.owner) \cup {<<>>},
               NEW asked \in BOOLEAN, Loaded(t, Gathered(t, names, asked))
        PROVE  \E g : DOMAIN g = Fields /\ Gathers(h, g) /\ Loaded(t, g)
    <3>1. Gathers(h, Gathered(t, names, asked))
      BY <1>1, <1>3, GatheredData
    <3>2. DOMAIN Gathered(t, names, asked) = Fields
      BY GatheredKept
    <3> QED BY <2>1, <3>1, <3>2
  <2>2. Gathers(h, Defaults(t)) /\ DOMAIN Defaults(t) = Fields
    BY <1>1, DefaultData, GatheredKept
  <2> QED BY <1>4, <2>1, <2>2
<1>6. PICK g : DOMAIN g = Fields /\ Gathers(h, g) /\ Loaded(t, g)
  BY <1>5
<1>7. /\ hand'[t].pc = AfterLoad(Type[g.msg], g.actions)
      /\ hand'[t].active = g.active /\ hand'[t].old = g.old
      /\ hand'[t].code = g.code /\ hand'[t].msg = g.msg
      /\ hand'[t].actions = g.actions /\ hand'[t].rules = g.rules
      /\ hand'[t].quotas = g.quotas
      /\ \A u \in Thread \ {t} : hand'[u] = hand[u]
  BY <1>1, <1>6 DEF Loaded, Go, Fields
<1> HIDE DEF h
<1>8. hand'[t].pc \in {"update", "uli", "rules"}
  BY <1>7 DEF AfterLoad, AfterCacheUpdate
<1>9. ASSUME Type[h.msg] = "INITIAL" PROVE Initiates(hand'[t])
  <2>1. Initiates(h)
    BY <1>1, <1>9 DEF HandData
  <2>2. h.code = 2001
    BY <1>1, <2>1 DEF Initiates
  <2>3. hand'[t].active = <<>> /\ hand'[t].code = 2001
        /\ "OPERATE_RULE" \in hand'[t].actions
    BY <1>1, <1>6, <1>7, <2>1, <2>2 DEF Initiates, Gathers
  <2> QED BY <1>8, <2>3 DEF Initiates, Early
<1>10. HandData(hand'[t])
  <2>1. BareList(h.active) /\ BareList(h.old)
    BY <1>1 DEF HandData
  <2> QED BY <1>6, <1>7, <1>8, <1>9, <2>1 DEF HandData, Gathers
<1> QED BY <1>2, <1>7, <1>10, HandsData DEF h
-----------------------------------------------------------------------------
LEMMA ChangeUliData ==
  ASSUME TypeInv, DataInv, NEW t \in Thread, NEW p \in Session,
         NEW served \in BOOLEAN, ChangeUli(t, p, served)
  PROVE  DataInv'
<1> DEFINE h == hand[t]
           left == IF served THEN h.todo \ {p} ELSE {}
           old == h.old \o PlaceRules(p)
           new == <<ProceraRule(UliRule(Cell(h.data.location), <<>>))>>
<1>1. /\ h.pc = "rar" /\ DOMAIN h = Fields /\ DOMAIN hand = Thread
      /\ HandData(h) /\ FiniteStores
  BY HandTypes DEF ChangeUli, TypeInv, HandsType, DataInv
<1>2. BareList(old)
  <2>1. BareList(h.old) /\ BareList(PlaceRules(p))
    BY <1>1, PlaceList DEF HandData, FiniteStores
  <2> QED BY <2>1, JoinedBare
<1>3. IsList(new)
  BY ShortLists
<1>4. /\ hand'[t].pc = (IF left = {} THEN "rules" ELSE "rar")
      /\ hand'[t].todo = left
      /\ hand'[t].old = (IF left = {} THEN <<>> ELSE old)
      /\ hand'[t].active = h.active /\ hand'[t].rules = h.rules
      /\ hand'[t].quotas = h.quotas /\ hand'[t].actions = h.actions
      /\ hand'[t].msg = h.msg /\ hand'[t].code = h.code
      /\ \A u \in Thread \ {t} : hand'[u] = hand[u]
  BY <1>1 DEF ChangeUli, Go, Fields
<1>5. UNCHANGED <<client, located>>
  BY DEF ChangeUli
<1>6. FiniteStores'
  <2>1. CASE served
    <3>1. OperateRules(p, old, new)
      BY <2>1 DEF ChangeUli
    <3> HIDE DEF old, new
    <3> QED BY <1>1, <1>3, <1>5, <3>1, OperatedFinite
  <2>2. CASE ~served
    <3>1. UNCHANGED <<rulesOf, queue>>
      BY <2>2 DEF ChangeUli
    <3> QED BY <1>1, <1>5, <3>1 DEF FiniteStores
  <2> QED BY <2>1, <2>2
<1>7. left \subseteq Procera
  BY <1>1 DEF HandData
<1> HIDE DEF h, old, left
<1>8. BareList(hand'[t].old) /\ hand'[t].pc \in {"rules", "rar"}
  BY <1>2, <1>4, EmptyLists
<1>9. HandData(hand'[t])
  <2>1. Type[h.msg] = "INITIAL" => Initiates(hand'[t])
    BY <1>1, <1>4, <1>8 DEF HandData, Initiates, Early
  <2> QED BY <1>1, <1>4, <1>7, <1>8, <2>1 DEF HandData
<1> QED BY <1>4, <1>5, <1>6, <1>9, HandsData

LEMMA RulesData ==
  ASSUME TypeInv, DataInv, NEW t \in Thread, Rules(t)
  PROVE  DataInv'
<1> DEFINE h == hand[t]
<1>1. /\ h.pc = "rules" /\ DOMAIN h = Fields /\ DOMAIN hand = Thread
      /\ HandData(h) /\ FiniteStores /\ At(t) \in Session
  BY HandTypes DEF Rules, TypeInv, HandsType, DataInv
<1>2. /\ hand'[t].pc = "send" /\ hand'[t].msg = h.msg
      /\ hand'[t].code = h.code /\ hand'[t].rules = h.rules
      /\ hand'[t].active = <<>> /\ hand'[t].old = <<>> /\ hand'[t].quotas = <<>>
      /\ \A u \in Thread \ {t} : hand'[u] = hand[u]
  BY <1>1 DEF Rules, Go, Idle
<1>3. UNCHANGED <<client, located>>
  BY DEF Rules
<1>4. FiniteStores'
  <2>1. IsList(h.rules)
    BY <1>1 DEF HandData
  <2>2. \/ OperateRules(At(t), h.active, h.rules)
        \/ UNCHANGED <<rulesOf, queue>>
    BY DEF Rules
  <2> HIDE DEF h
  <2>3. CASE OperateRules(At(t), h.active, h.rules)
    BY <1>1, <1>3, <2>1, <2>3, OperatedFinite
  <2>4. CASE UNCHANGED <<rulesOf, queue>>
    BY <1>1, <1>3, <2>4 DEF FiniteStores
  <2> QED BY <2>2, <2>3, <2>4
<1> HIDE DEF h
<1>5. Type[h.msg] = "INITIAL" => Initiates(hand'[t])
  BY <1>1, <1>2 DEF HandData, Initiates, Early
<1>6. HandData(hand'[t])
  BY <1>1, <1>2, <1>5, EmptyLists DEF HandData
<1> QED BY <1>2, <1>3, <1>4, <1>6, HandsData

LEMMA SendData ==
  ASSUME TypeInv, DataInv, NEW t \in Thread, Send(t)
  PROVE  DataInv'
<1>1. HandData(Idle)
  BY IdleData DEF Idle
<1>2. hand'[t] = Idle /\ \A u \in Thread \ {t} : hand'[u] = hand[u]
  BY DEF Send, Go, TypeInv, HandsType
<1>3. FiniteStores' /\ UNCHANGED client
  BY DEF Send, database, ruleVars, DataInv, FiniteStores
<1> QED BY <1>1, <1>2, <1>3, HandsData

LEMMA InitialOperates ==
  ASSUME NEW m \in DOMAIN Message, Type[m] = "INITIAL"
  PROVE  "OPERATE_RULE" \in Actions[m]
<1>1. Request[m].type = {"INITIAL"}
  BY MessageAssumption
<1>2. Actions[m] = ActionSet(DialectOf[SessionOf[m]], Request[m], ProceraUsed)
  BY DEF Actions
<1>3. ASSUME NEW dialect, NEW r, NEW used, r.type = {"INITIAL"}
      PROVE  "OPERATE_RULE" \in ActionSet(dialect, r, used)
  BY <1>3 DEF ActionSet
<1> QED BY <1>1, <1>2, <1>3

LEMMA ReceiveData ==
  ASSUME TypeInv, DataInv, NEW t \in Thread, NEW m \in DOMAIN Message,
         NEW conn \in BOOLEAN, Receive(t, m, conn)
  PROVE  DataInv'
<1>0. DOMAIN hand = Thread
  BY DEF TypeInv, HandsType
<1>1. /\ hand'[t].pc = FirstStep(DialectOf[SessionOf[m]], Type[m])
      /\ hand'[t].msg = m
      /\ hand'[t].rules = <<>> /\ hand'[t].actions = Actions[m]
      /\ hand'[t].active = <<>> /\ hand'[t].old = <<>> /\ hand'[t].quotas = <<>>
      /\ \A u \in Thread \ {t} : hand'[u] = hand[u]
  BY <1>0 DEF Receive, Go, Idle
<1>2. hand'[t].pc \notin {"rar", "active", "load"}
  BY <1>1 DEF FirstStep
<1>3. Type[m] = "INITIAL" => Initiates(hand'[t])
  BY <1>1, <1>2, InitialOperates DEF Initiates
<1>4. HandData(hand'[t])
  BY <1>1, <1>2, <1>3, IdleData
<1>5. FiniteStores' /\ UNCHANGED client
  BY DEF Receive, database, ruleVars, DataInv, FiniteStores
<1> QED BY <1>1, <1>4, <1>5, HandsData

-----------------------------------------------------------------------------
(* The steps of others                                                     *)
LEMMA OthersData ==
  ASSUME DataInv, UNCHANGED hand, ClientData', FiniteStores'
  PROVE  DataInv'
BY DEF DataInv

LEMMA ClientIdles ==
  ASSUME TypeInv, NEW s, client' = Past(s)
  PROVE  client'.pc # "send" /\ ClientData'
<1>1. DOMAIN client = ClientFields
  BY DEF TypeInv, ClientType
<1>2. client'.pc # "send"
  BY <1>1 DEF Past, Resting, ClientFields
<1> QED BY <1>2 DEF ClientData

LEMMA ApplyData ==
  ASSUME TypeInv, DataInv, NEW s \in Session, Apply(s)
  PROVE  DataInv'
<1> DEFINE list == queue[s]
           q == Head(list)
<1>1. FiniteStores /\ UNCHANGED <<hand, client, rulesOf>>
  BY DEF Apply, DataInv, ruleVars
<1>2. IsList(list) /\ list # <<>> /\ \A i \in DOMAIN list : IsFiniteSet(list[i].opened)
  BY <1>1 DEF Apply, FiniteStores
<1>3. /\ queue' = [queue EXCEPT ![s] = Tail(@)]
      /\ located' = [located EXCEPT ![s] =
                       IF q.all THEN {} ELSE (@ \ q.closed) \cup q.opened]
  BY DEF Apply
<1>4. queue'[s] = Tail(list) /\ DOMAIN queue' = Session
      /\ \A r \in Session \ {s} : queue'[r] = queue[r]
  BY <1>1, <1>3 DEF FiniteStores
<1> HIDE DEF list
<1>5. list \in Seq(Range(list)) /\ DOMAIN list = 1..Len(list) /\ Len(list) \in Nat
  BY <1>2, ListSequence
<1>6. /\ Tail(list) \in Seq(Range(list))
      /\ 1 \in DOMAIN list /\ Head(list) = list[1]
      /\ \A i \in DOMAIN Tail(list) : /\ i + 1 \in DOMAIN list
                                      /\ Tail(list)[i] = list[i + 1]
  BY <1>2, <1>5
<1>7. IsList(Tail(list)) /\ \A i \in DOMAIN Tail(list) : IsFiniteSet(Tail(list)[i].opened)
  BY <1>2, <1>6, SequenceList
<1>8. IsFiniteSet(q.opened)
  BY <1>2, <1>6
<1>9. IsFiniteSet((located[s] \ q.closed) \cup q.opened)
  <2>1. IsFiniteSet(located[s])
    BY <1>1 DEF FiniteStores
  <2>2. IsFiniteSet(located[s] \ q.closed)
    BY <2>1, FS_Subset
  <2> QED BY <1>8, <2>2, FS_Union
<1> HIDE DEF q
<1>10. /\ DOMAIN located' = Session
       /\ \A r \in Session : \/ located'[r] = located[r]
                             \/ located'[r] = {}
                             \/ r = s /\ located'[r]
                                           = (located[s] \ q.closed) \cup q.opened
  BY <1>1, <1>3 DEF FiniteStores
<1>11. \A r \in Session : IsFiniteSet(located'[r])
  BY <1>1, <1>9, <1>10, FS_EmptySet DEF FiniteStores
<1>12. FiniteStores'
  BY <1>1, <1>4, <1>7, <1>10, <1>11 DEF FiniteStores, list
<1>13. ClientData'
  BY <1>1 DEF DataInv, ClientData
<1> QED BY <1>1, <1>12, <1>13, OthersData

LEMMA RaaData ==
  ASSUME TypeInv, DataInv, NEW s \in Session, Raa(s)
  PROVE  DataInv'
<1>1. FiniteStores /\ UNCHANGED <<hand, client, located>>
  BY DEF Raa, DataInv
<1>2. FiniteRules'
  BY <1>1, ForgottenFinite DEF Raa, RemoveSession
<1>3. FiniteQueue'
  BY <1>1, PlainStatements, EnqueuedFinite, FS_EmptySet DEF Raa
<1>4. FiniteStores'
  BY <1>1, <1>2, <1>3 DEF FiniteStores, FiniteRules, FiniteQueue
<1>5. ClientData'
  BY <1>1 DEF DataInv, ClientData
<1> QED BY <1>1, <1>4, <1>5, OthersData

LEMMA VisitData ==
  ASSUME TypeInv, DataInv, NEW s \in Session, Visit(s)
  PROVE  DataInv'
<1>1. FiniteStores /\ UNCHANGED <<hand, rulesOf, located, queue>>
  BY DEF Visit, DataInv, ruleVars, database
<1>2. FiniteStores'
  BY <1>1 DEF FiniteStores
<1>3. CASE client' = Past(s)
  BY <1>1, <1>2, <1>3, ClientIdles, OthersData
<1>4. CASE client' # Past(s)
  <2>1. /\ cache[s] # {}
        /\ \E names \in Reads(The(cache[s]).owner) : Compare(s, names)
    BY <1>4 DEF Visit, Skip, Release
  <2>2. The(cache[s]).owner \in BOOLEAN
    BY <2>1 DEF TypeInv, RegistryType, DataType, The
  <2>3. PICK names \in Reads(The(cache[s]).owner) : Compare(s, names)
    BY <2>1
  <2>4. IsList(names)
    BY <2>2, ReadLists
  <2> DEFINE loaded == LoadRuleInfo(Known, names, DialectOf[s], <<>>)
             active == Marked(ActiveRules(s), loaded)
             marked == SelectActive(loaded, ActiveRules(s))
  <2>5. IsList(loaded) /\ (DialectOf[s] # "SCE" => RuleList(loaded))
    BY <2>4, LoadedList, EmptyLists
  <2>6. BareList(ActiveRules(s))
    BY <1>1, ActiveList DEF FiniteStores
  <2>7. \E keys : client' = [client EXCEPT !.pc = "send", !.at = s, !.keys = keys,
                               !.rules = marked, !.active = active]
    BY <1>4, <2>3 DEF Compare, Skip, Release
  <2> HIDE DEF loaded
  <2>8. IsList(marked) /\ (DialectOf[s] # "SCE" => RuleList(marked))
    BY <2>5, SelectedActive
  <2>9. BareList(active)
    BY <2>6, SelectedRelevant DEF Marked
  <2> HIDE DEF marked, active
  <2>10. client'.at = s /\ client'.rules = marked /\ client'.active = active
    BY <2>7 DEF TypeInv, ClientType, ClientFields
  <2>11. ClientData'
    BY <2>8, <2>9, <2>10 DEF ClientData
  <2> QED BY <1>1, <1>2, <2>11, OthersData
<1> QED BY <1>3, <1>4

LEMMA RefreshData ==
  ASSUME TypeInv, DataInv, Refresh
  PROVE  DataInv'
<1>1. /\ FiniteStores /\ UNCHANGED <<hand, located>>
      /\ client.pc = "send" /\ client.at \in Session
  BY DEF Refresh, DataInv, TypeInv, ClientType
<1>2. IsList(client.rules)
  BY <1>1 DEF DataInv, ClientData
<1>3. FiniteStores'
  BY <1>1, <1>2, OperatedFinite DEF Refresh
<1>4. ClientData'
  BY ClientIdles DEF Refresh
<1> QED BY <1>1, <1>3, <1>4, OthersData

LEMMA TakeData ==
  ASSUME TypeInv, DataInv,
         \/ \E s \in Session : TakeAbort(s)
         \/ TakeRefresh
         \/ \E p \in DOMAIN Profiles : ChangeProfile(p)
         \/ \E t \in Thread : NullConnection(t)
         \/ UNCHANGED vars
  PROVE  DataInv'
<1>1. FiniteStores' /\ UNCHANGED hand
  BY DEF TakeAbort, TakeRefresh, ChangeProfile, NullConnection, vars, database,
         ruleVars, DataInv, FiniteStores
<1>2. client' = client \/ client'.pc \in {"idle", "next"}
  <2>1. ASSUME NEW s \in Session, TakeAbort(s) PROVE client'.pc = "next"
    BY <2>1 DEF TakeAbort, Resting
  <2>2. ASSUME TakeRefresh PROVE client'.pc \in {"idle", "next"}
    BY <2>2 DEF TakeRefresh, Resting
  <2> QED BY <2>1, <2>2 DEF ChangeProfile, NullConnection, vars
<1>3. ClientData'
  BY <1>2 DEF DataInv, ClientData
<1> QED BY <1>1, <1>3, OthersData

LEMMA DataStep == TypeInv /\ DataInv /\ [Next]_vars => DataInv'
<1> SUFFICES ASSUME TypeInv, DataInv, [Next]_vars PROVE DataInv'
  OBVIOUS
<1>1. ASSUME NEW t \in Thread, Handle(t) PROVE DataInv'
  BY <1>1, FindData, StoreData, EndData, ActiveData, LoadData, ChangeUliData,
     RulesData, SendData, ReceiveData, TakeData DEF Handle
<1>2. ASSUME NEW s \in Session, Apply(s) \/ Raa(s) \/ TakeAbort(s) \/ Visit(s)
      PROVE  DataInv'
  BY <1>2, ApplyData, RaaData, VisitData, TakeData
<1> QED BY <1>1, <1>2, RefreshData, TakeData DEF Next
-----------------------------------------------------------------------------
(* Whose turn it is.  A request opens, updates or ends its session, which  *)
(* is so for its gateway, and only the end cuts in on another request.     *)
UpdateSteps == {"get", "active", "update", "uli", "rar"}

InTurn(t) ==
  /\ Type[hand[t].msg] = "INITIAL" => gw[At(t)] = "opening"
  /\ Type[hand[t].msg] = "UPDATE" => gw[At(t)] \in {"open", "closed"}
  /\ Type[hand[t].msg] = "TERMINATION" => gw[At(t)] = "closed"
  /\ hand[t].pc = "insert" => Type[hand[t].msg] = "INITIAL"
  /\ hand[t].pc \in UpdateSteps => Type[hand[t].msg] = "UPDATE"

TurnInv ==
  /\ \A t \in Thread : hand[t].pc # "idle" => InTurn(t)
  /\ \A t, u \in Thread :
       (/\ t # u /\ hand[t].pc # "idle" /\ hand[u].pc # "idle"
        /\ At(t) = At(u)) => gw[At(t)] = "closed"

(* A gateway holds rules only while its session is open.                   *)
HeldInv ==
  /\ DOMAIN held = Session
  /\ \A s \in Session : gw[s] # "open" => held[s] = {}

LEMMA TurnInitially == Init => TurnInv /\ HeldInv
BY DEF Init, TurnInv, HeldInv, Idle

LEMMA TurnKept ==
  ASSUME TypeInv, TurnInv, NEW t \in Thread, hand[t].pc # "idle", UNCHANGED gw,
         NEW pcs, GoesOn(t, pcs), "idle" \notin pcs,
         hand'[t].pc = "insert" => Type[hand[t].msg] = "INITIAL",
         hand'[t].pc \in UpdateSteps => Type[hand[t].msg] = "UPDATE"
  PROVE  TurnInv'
<1>1. \A u \in Thread : hand'[u].msg = hand[u].msg /\ At(u)' = At(u)
  BY DEF GoesOn, At
<1>2. \A u \in Thread : hand'[u].pc # "idle" => hand[u].pc # "idle"
  BY DEF GoesOn
<1>3. ASSUME NEW u \in Thread, hand'[u].pc # "idle" PROVE InTurn(u)'
  <2>1. InTurn(u)
    BY <1>2, <1>3 DEF TurnInv
  <2>2. gw'[At(u)'] = gw[At(u)]
    BY <1>1
  <2>3. u # t => hand'[u] = hand[u]
    BY DEF GoesOn
  <2> QED BY <1>1, <2>1, <2>2, <2>3 DEF InTurn
<1>4. ASSUME NEW u \in Thread, NEW v \in Thread,
             u # v /\ hand'[u].pc # "idle" /\ hand'[v].pc # "idle" /\ At(u)' = At(v)'
      PROVE  gw'[At(u)'] = "closed"
  BY <1>1, <1>2, <1>4 DEF TurnInv
<1>5. \A u \in Thread : hand'[u].pc # "idle" => InTurn(u)'
  BY <1>3
<1>6. \A u, v \in Thread :
        (u # v /\ hand'[u].pc # "idle" /\ hand'[v].pc # "idle" /\ At(u)' = At(v)')
          => gw'[At(u)'] = "closed"
  BY <1>4
<1> QED BY <1>5, <1>6 DEF TurnInv

LEMMA FindTurn ==
  ASSUME TypeInv, TurnInv, NEW t \in Thread,
         Find(t) \/ Look(t) \/ Adopt(t) \/ Get(t) \/ Insert(t) \/ Linked(t) \/ End(t)
  PROVE  TurnInv'
<1>0. /\ UNCHANGED gw
      /\ hand[t].pc \in {"find", "look", "fill", "get", "insert", "linked", "remove"}
      /\ DOMAIN hand = Thread /\ DOMAIN hand[t] = Fields
  BY DEF Find, Look, Adopt, Get, Insert, Linked, End, Unmoved, gateways, TypeInv,
         HandsType, HandType
<1>1. CASE Find(t) \/ Look(t) \/ Adopt(t)
  <2>1. GoesOn(t, {"look", "fill", "insert", "store"})
    BY <1>1, Going
  <2>2. hand'[t].pc = "insert" => Type[hand[t].msg] = "INITIAL"
    <3>1. NoCore(t) \/ Adopt(t) => hand'[t].pc = Inserts(hand[t].msg)
      BY <1>0 DEF NoCore, Adopt, Go, Fields
    <3>2. Find(t) => NoCore(t) \/ hand'[t].pc = "look"
      BY <1>0 DEF Find, Go, Fields
    <3>3. Look(t) => NoCore(t) \/ hand'[t].pc = "fill"
      BY <1>0 DEF Look, Then, Go, Fields
    <3> QED BY <1>1, <3>1, <3>2, <3>3 DEF Inserts
  <2>3. hand'[t].pc \notin UpdateSteps
    BY <2>1 DEF GoesOn, UpdateSteps
  <2> QED BY <1>0, <2>1, <2>2, <2>3, TurnKept
<1>2. CASE Get(t)
  <2>1. GoesOn(t, {"store", "find", "load"})
    BY <1>2, Going
  <2>2. hand'[t].pc \notin UpdateSteps \cup {"insert"}
    BY <2>1 DEF GoesOn, UpdateSteps
  <2> QED BY <1>0, <2>1, <2>2, TurnKept
<1>3. CASE Insert(t) \/ End(t)
  <2>1. GoesOn(t, {"store"})
    BY <1>3, Going
  <2>2. hand'[t].pc \notin UpdateSteps \cup {"insert"}
    BY <2>1 DEF GoesOn, UpdateSteps
  <2> QED BY <1>0, <2>1, <2>2, TurnKept
<1>4. CASE Linked(t)
  <2>1. GoesOn(t, {"remove", "ending"})
    BY <1>4, Going
  <2>2. hand'[t].pc \notin UpdateSteps \cup {"insert"}
    BY <2>1 DEF GoesOn, UpdateSteps
  <2> QED BY <1>0, <2>1, <2>2, TurnKept
<1> QED BY <1>1, <1>2, <1>3, <1>4

LEMMA LoadTurn ==
  ASSUME TypeInv, TurnInv, NEW t \in Thread, Store(t) \/ Load(t) \/ Active(t)
  PROVE  TurnInv'
<1>0. /\ UNCHANGED gw
      /\ hand[t].pc \in {"store", "load", "active"}
      /\ DOMAIN hand = Thread /\ DOMAIN hand[t] = Fields
  BY DEF Store, Load, Active, Unmoved, gateways, TypeInv, HandsType, HandType
<1>1. CASE Store(t)
  <2>1. GoesOn(t, {"load", "active", "update", "uli", "rules"})
    BY <1>1, GoingToLoad
  <2>2. hand'[t].pc # "insert"
    BY <2>1 DEF GoesOn
  <2>3. hand'[t].pc \in UpdateSteps => Type[hand[t].msg] = "UPDATE"
    BY <1>0, <1>1 DEF Store, Then, Go, AfterLoad, Fields, UpdateSteps
  <2> QED BY <1>0, <2>1, <2>2, <2>3, TurnKept
<1>2. CASE Load(t)
  <2>1. GoesOn(t, {"update", "uli", "rules"})
    BY <1>2, GoingToLoad
  <2>2. hand'[t].pc # "insert"
    BY <2>1 DEF GoesOn
  <2>3. hand'[t].pc \in UpdateSteps => Type[hand[t].msg] = "UPDATE"
    <3>1. PICK names, asked : \/ Loaded(t, Gathered(t, names, asked))
                              \/ Loaded(t, Defaults(t))
      BY <1>2 DEF Load
    <3>2. PICK g \in {Gathered(t, names, asked), Defaults(t)} : Loaded(t, g)
      BY <3>1
    <3>3. DOMAIN g = Fields /\ g.msg = hand[t].msg
      BY GatheredKept
    <3> QED BY <1>0, <3>2, <3>3 DEF Loaded, Go, AfterLoad, Fields, UpdateSteps
  <2> QED BY <1>0, <2>1, <2>2, <2>3, TurnKept
<1>3. CASE Active(t)
  <2>1. GoesOn(t, {"store", "find", "load"})
    BY <1>3, Going
  <2>2. hand'[t].pc \notin UpdateSteps \cup {"insert"}
    BY <2>1 DEF GoesOn, UpdateSteps
  <2> QED BY <1>0, <2>1, <2>2, TurnKept
<1> QED BY <1>1, <1>2, <1>3

LEMMA ProceraTurn ==
  ASSUME TypeInv, TurnInv, NEW t \in Thread,
         \/ CacheUpdate(t) \/ Rules(t)
         \/ \E served \in BOOLEAN : ListProcera(t, served)
         \/ \E p \in Session, served \in BOOLEAN : ChangeUli(t, p, served)
         \/ \E c \in Session, served \in BOOLEAN : EndChild(t, c, served)
  PROVE  TurnInv'
<1>0. /\ UNCHANGED gw
      /\ hand[t].pc \in {"update", "rules", "uli", "rar", "ending"}
  BY DEF CacheUpdate, Rules, ListProcera, ChangeUli, EndChild, ReAuth, Unmoved,
         gateways
<1>1. InTurn(t)
  BY <1>0 DEF TurnInv
<1>2. CASE CacheUpdate(t)
  <2>1. GoesOn(t, {"uli", "rules"}) /\ hand[t].pc = "update"
    BY <1>2, Going DEF CacheUpdate
  <2> QED BY <1>0, <1>1, <2>1, TurnKept DEF InTurn, UpdateSteps, GoesOn
<1>3. CASE Rules(t)
  <2>1. GoesOn(t, {"send"})
    BY <1>3, Going
  <2> QED BY <1>0, <2>1, TurnKept DEF UpdateSteps, GoesOn
<1>4. CASE \/ \E served \in BOOLEAN : ListProcera(t, served)
           \/ \E p \in Session, served \in BOOLEAN : ChangeUli(t, p, served)
  <2>1. GoesOn(t, {"rules", "rar"})
    BY <1>4, Going
  <2>2. hand[t].pc \in {"uli", "rar"}
    BY <1>4 DEF ListProcera, ChangeUli
  <2> QED BY <1>0, <1>1, <2>1, <2>2, TurnKept DEF InTurn, UpdateSteps, GoesOn
<1>5. CASE \E c \in Session, served \in BOOLEAN : EndChild(t, c, served)
  <2>1. GoesOn(t, {"remove", "ending"})
    BY <1>5, Going
  <2> QED BY <1>0, <2>1, TurnKept DEF UpdateSteps, GoesOn
<1> QED BY <1>2, <1>3, <1>4, <1>5
-----------------------------------------------------------------------------
(* A session whose gateway is new has no handler, and one whose gateway is *)
(* opening or open has one at most.                                        *)
LEMMA Alone ==
  ASSUME TypeInv, TurnInv, NEW s \in Session
  PROVE  /\ gw[s] = "new" => ~Handled(s)
         /\ \A t, u \in Thread :
              (Handles(t, s) /\ Handles(u, s) /\ gw[s] # "closed") => t = u
         /\ \A t \in Thread : Handles(t, s) =>
              /\ InTurn(t)
              /\ gw[s] = "opening" => Type[hand[t].msg] = "INITIAL"
              /\ gw[s] = "open" => Type[hand[t].msg] = "UPDATE"
<1>1. ASSUME NEW t \in Thread, Handles(t, s)
      PROVE  /\ InTurn(t) /\ gw[s] # "new"
             /\ gw[s] = "opening" => Type[hand[t].msg] = "INITIAL"
             /\ gw[s] = "open" => Type[hand[t].msg] = "UPDATE"
  <2>1. InTurn(t) /\ At(t) = s
    BY <1>1 DEF TurnInv, Handles
  <2>2. Type[hand[t].msg] \in {"INITIAL", "UPDATE", "TERMINATION"}
    BY <1>1, HandTypes DEF Handles
  <2> QED BY <2>1, <2>2 DEF InTurn
<1>2. ASSUME NEW t \in Thread, NEW u \in Thread, Handles(t, s), Handles(u, s),
             gw[s] # "closed"
      PROVE  t = u
  BY <1>2 DEF TurnInv, Handles
<1> QED BY <1>1, <1>2 DEF Handled

LEMMA SendTurn ==
  ASSUME TypeInv, TurnInv, NEW t \in Thread, Send(t)
  PROVE  TurnInv'
<1>0. DOMAIN hand = Thread /\ DOMAIN gw = Session /\ hand[t].pc = "send"
      /\ At(t) \in Session
  BY HandTypes DEF Send, TypeInv, HandsType, GatewayType
<1>1. /\ hand'[t].pc = "idle" /\ \A u \in Thread \ {t} : hand'[u] = hand[u]
  BY <1>0 DEF Send, Go, Idle
<1>2. \A u \in Thread \ {t} : At(u)' = At(u)
  BY <1>1 DEF At
<1>3. ASSUME NEW u \in Thread \ {t}, hand[u].pc # "idle" PROVE gw'[At(u)] = gw[At(u)]
  <2>1. At(u) \in Session
    BY <1>3, HandTypes
  <2>2. CASE At(u) = At(t)
    <3>1. gw[At(t)] = "closed"
      BY <1>0, <1>3, <2>2 DEF TurnInv
    <3> QED BY <1>0, <2>1, <2>2, <3>1 DEF Send
  <2>3. CASE At(u) # At(t)
    BY <1>0, <2>1, <2>3 DEF Send
  <2> QED BY <2>2, <2>3
<1>4. ASSUME NEW u \in Thread, hand'[u].pc # "idle" PROVE InTurn(u)'
  <2>1. u # t /\ hand'[u] = hand[u] /\ At(u)' = At(u)
    BY <1>1, <1>2, <1>4
  <2>2. InTurn(u) /\ gw'[At(u)] = gw[At(u)]
    BY <1>3, <1>4, <2>1 DEF TurnInv
  <2>3. gw'[At(u)'] = gw[At(u)]
    BY <2>1, <2>2
  <2> QED BY <2>1, <2>2, <2>3 DEF InTurn
<1>5. ASSUME NEW u \in Thread, NEW v \in Thread,
             u # v /\ hand'[u].pc # "idle" /\ hand'[v].pc # "idle" /\ At(u)' = At(v)'
      PROVE  gw'[At(u)'] = "closed"
  <2>1. u # t /\ v # t /\ hand'[u] = hand[u] /\ hand'[v] = hand[v]
        /\ At(u)' = At(u) /\ At(v)' = At(v)
    BY <1>1, <1>2, <1>5
  <2>2. gw[At(u)] = "closed" /\ gw'[At(u)] = gw[At(u)]
    BY <1>3, <1>5, <2>1 DEF TurnInv
  <2> QED BY <2>1, <2>2
<1>6. \A u \in Thread : hand'[u].pc # "idle" => InTurn(u)'
  BY <1>4
<1>7. \A u, v \in Thread :
        (u # v /\ hand'[u].pc # "idle" /\ hand'[v].pc # "idle" /\ At(u)' = At(v)')
          => gw'[At(u)'] = "closed"
  BY <1>5
<1> QED BY <1>6, <1>7 DEF TurnInv

LEMMA ReceiveTurn ==
  ASSUME TypeInv, TurnInv, NEW t \in Thread, NEW m \in DOMAIN Message,
         NEW conn \in BOOLEAN, Receive(t, m, conn)
  PROVE  TurnInv'
<1> DEFINE s == SessionOf[m]
<1>0. DOMAIN hand = Thread /\ DOMAIN gw = Session /\ s \in Session
      /\ hand[t].pc = "idle" /\ Type[m] \in {"INITIAL", "UPDATE", "TERMINATION"}
  BY MessageAssumption DEF Receive, TypeInv, HandsType, GatewayType
<1>1. /\ hand'[t].pc = FirstStep(DialectOf[s], Type[m]) /\ hand'[t].msg = m
      /\ \A u \in Thread \ {t} : hand'[u] = hand[u]
  BY <1>0 DEF Receive, Go, Idle
<1>2. /\ At(t)' = s
      /\ \A u \in Thread \ {t} : At(u)' = At(u)
  BY <1>1 DEF At
<1>3. /\ gw'[s] = (IF Type[m] = "INITIAL" THEN "opening"
                   ELSE IF Type[m] = "UPDATE" THEN gw[s] ELSE "closed")
      /\ \A r \in Session \ {s} : gw'[r] = gw[r]
      /\ CanSend(s, Type[m])
  BY <1>0 DEF Receive
<1> HIDE DEF s
<1>4. /\ Type[m] = "INITIAL" => gw[s] = "new" /\ ~Handled(s)
      /\ Type[m] = "UPDATE" => gw[s] = "open" /\ ~Handled(s)
      /\ Type[m] = "TERMINATION" => gw[s] = "open"
  BY <1>0, <1>3, Alone DEF CanSend, Handled
<1>5. ASSUME NEW u \in Thread, hand'[u].pc # "idle" PROVE InTurn(u)'
  <2>1. CASE u = t
    BY <1>0, <1>1, <1>2, <1>3, <1>4, <2>1 DEF InTurn, FirstStep, UpdateSteps
  <2>2. CASE u # t
    <3>1. hand'[u] = hand[u] /\ At(u)' = At(u) /\ InTurn(u) /\ At(u) \in Session
          /\ Handles(u, At(u))
      BY <1>1, <1>2, <1>5, <2>2, HandTypes DEF TurnInv, Handles
    <3>2. CASE At(u) = s
      <4>1. Type[m] = "TERMINATION" /\ Type[hand[u].msg] = "UPDATE"
        BY <1>0, <1>4, <3>1, <3>2, Alone DEF Handled
      <4> QED BY <1>0, <1>3, <3>1, <3>2, <4>1 DEF InTurn
    <3>3. CASE At(u) # s
      BY <1>3, <3>1, <3>3 DEF InTurn
    <3> QED BY <3>2, <3>3
  <2> QED BY <2>1, <2>2
<1>6. ASSUME NEW u \in Thread, NEW v \in Thread,
             u # v /\ hand'[u].pc # "idle" /\ hand'[v].pc # "idle" /\ At(u)' = At(v)'
      PROVE  gw'[At(u)'] = "closed"
  <2>1. CASE u # t /\ v # t
    <3>1. hand'[u] = hand[u] /\ hand'[v] = hand[v] /\ At(u)' = At(u) /\ At(v)' = At(v)
          /\ At(u) \in Session
      BY <1>1, <1>2, <1>6, <2>1, HandTypes
    <3>2. gw[At(u)] = "closed"
      BY <1>6, <3>1 DEF TurnInv
    <3> QED BY <1>0, <1>3, <1>4, <3>1, <3>2
  <2>2. CASE u = t \/ v = t
    <3>1. PICK w \in Thread \ {t} : hand[w].pc # "idle" /\ At(w) = s
      BY <1>1, <1>2, <1>6, <2>2
    <3>2. At(u)' = s
      BY <1>2, <1>6, <2>2
    <3>3. Handled(s)
      BY <3>1 DEF Handled, Handles
    <3> QED BY <1>0, <1>3, <1>4, <3>2, <3>3
  <2> QED BY <2>1, <2>2
<1>7. \A u \in Thread : hand'[u].pc # "idle" => InTurn(u)'
  BY <1>5
<1>8. \A u, v \in Thread :
        (u # v /\ hand'[u].pc # "idle" /\ hand'[v].pc # "idle" /\ At(u)' = At(v)')
          => gw'[At(u)'] = "closed"
  BY <1>6
<1> QED BY <1>7, <1>8 DEF TurnInv

LEMMA OthersTurn ==
  ASSUME TurnInv,
         \/ \E s \in Session : Apply(s) \/ Raa(s) \/ TakeAbort(s) \/ Visit(s)
         \/ TakeRefresh \/ Refresh
         \/ \E p \in DOMAIN Profiles : ChangeProfile(p)
         \/ \E t \in Thread : NullConnection(t)
         \/ UNCHANGED vars
  PROVE  TurnInv'
<1>1. ASSUME NEW s \in Session, Visit(s) PROVE UNCHANGED <<gw, hand>>
  BY <1>1 DEF Visit, Skip, Release, Compare, gateways
<1>2. UNCHANGED <<gw, hand>>
  BY <1>1 DEF Apply, Raa, TakeAbort, TakeRefresh, Refresh, ReAuth, ChangeProfile,
              NullConnection, vars, gateways
<1> QED BY <1>2 DEF TurnInv, InTurn, At

LEMMA TurnStep == TypeInv /\ TurnInv /\ [Next]_vars => TurnInv'
<1> SUFFICES ASSUME TypeInv, TurnInv, [Next]_vars PROVE TurnInv'
  OBVIOUS
<1>1. ASSUME NEW t \in Thread, Handle(t) PROVE TurnInv'
  BY <1>1, FindTurn, LoadTurn, ProceraTurn, SendTurn, ReceiveTurn, OthersTurn
     DEF Handle
<1>2. ASSUME NEW s \in Session, Apply(s) \/ Raa(s) \/ TakeAbort(s) \/ Visit(s)
      PROVE  TurnInv'
  BY <1>2, OthersTurn
<1> QED BY <1>1, <1>2, OthersTurn DEF Next

-----------------------------------------------------------------------------
LEMMA ReAuthHeld ==
  ASSUME HeldInv, NEW s \in Session, NEW avps, NEW t, ReAuth(s, avps, t)
  PROVE  HeldInv'
BY DEF ReAuth, HeldInv

LEMMA HeldStep == TypeInv /\ HeldInv /\ [Next]_vars => HeldInv'
<1> SUFFICES ASSUME TypeInv, HeldInv, [Next]_vars PROVE HeldInv'
  OBVIOUS
<1>0. DOMAIN gw = Session
  BY DEF TypeInv, GatewayType
<1>1. ASSUME UNCHANGED <<gw, held>> PROVE HeldInv'
  BY <1>1 DEF HeldInv
<1>2. ASSUME NEW t \in Thread, NEW m \in DOMAIN Message, NEW conn \in BOOLEAN,
             Receive(t, m, conn)
      PROVE  HeldInv'
  BY <1>0, <1>2 DEF Receive, CanSend, HeldInv
<1>3. ASSUME NEW t \in Thread, Send(t) PROVE HeldInv'
  <2> DEFINE s == At(t)
  <2>1. DOMAIN held' = Session /\ s \in Session
    BY <1>3, HandTypes DEF Send, HeldInv
  <2>2. \A r \in Session \ {s} : gw'[r] = gw[r] /\ held'[r] = held[r]
    BY <1>0, <1>3 DEF Send, HeldInv
  <2>3. ASSUME gw'[s] # "open" PROVE held'[s] = held[s] /\ gw[s] # "open"
    BY <1>0, <1>3, <2>1, <2>3 DEF Send, HeldInv
  <2> HIDE DEF s
  <2>4. \A r \in Session : gw'[r] # "open" => held'[r] = {}
    BY <2>1, <2>2, <2>3 DEF HeldInv
  <2> QED BY <2>1, <2>4 DEF HeldInv
<1>4. ASSUME NEW t \in Thread, NEW p \in Session, NEW served \in BOOLEAN,
             ChangeUli(t, p, served)
      PROVE  HeldInv'
  BY <1>1, <1>4, ReAuthHeld DEF ChangeUli, gateways
<1>5. ASSUME Refresh PROVE HeldInv'
  BY <1>5, ReAuthHeld DEF Refresh, TypeInv, ClientType
<1>6. ASSUME NEW t \in Thread, Handle(t) PROVE HeldInv'
  BY <1>1, <1>2, <1>3, <1>4, <1>6
     DEF Handle, Find, Look, Adopt, Insert, Linked, End, Get, Store, Active, Load,
         EndChild, CacheUpdate, NullConnection, ListProcera, Rules, Unmoved,
         gateways
<1>7. ASSUME NEW s \in Session, Visit(s) PROVE UNCHANGED <<gw, held>>
  BY <1>7 DEF Visit, Skip, Release, Compare, gateways
<1>8. ASSUME NEW s \in Session, Apply(s) \/ Raa(s) \/ TakeAbort(s) \/ Visit(s)
      PROVE  HeldInv'
  BY <1>1, <1>7, <1>8 DEF Apply, Raa, TakeAbort, gateways
<1>9. CASE UNCHANGED vars
  BY <1>1, <1>9 DEF vars, gateways
<1>10. CASE TakeRefresh \/ \E p \in DOMAIN Profiles : ChangeProfile(p)
  BY <1>1, <1>10 DEF TakeRefresh, ChangeProfile, gateways
<1> QED BY <1>5, <1>6, <1>8, <1>9, <1>10 DEF Next
-----------------------------------------------------------------------------
(* What a handler says of the rules of its session: while it opens the     *)
(* session there are none until its answer installs them, and from then on *)
(* what its answer will have made of the gateway's rules is what the cache *)
(* has; a report of failed rules takes them out of the cache a few steps   *)
(* after they are out of the gateway.                                      *)
Rightly(t, s) ==
  /\ gw[s] = "opening" =>
       \/ s \in unknown
       \/ hand[t].pc # "send" /\ rulesOf[s] = {}
       \/ /\ hand[t].pc = "send"
          /\ Matches(Applied({}, hand[t].answer), rulesOf[s])
          /\ hand[t].code # 2001 => rulesOf[s] = {}
  /\ gw[s] = "open" =>
       /\ hand[t].pc = "send" => Matches(Applied(held[s], hand[t].answer), rulesOf[s])
       /\ hand[t].pc \in Late => Matches(held[s], rulesOf[s])
       /\ hand[t].pc \in Early =>
            Matches(held[s], rulesOf[s] \ Reported(hand[t].msg))

AgreesAt(s) ==
  /\ \A t \in Thread : Handles(t, s) => Rightly(t, s)
  /\ ~Handled(s) => /\ gw[s] = "new" => rulesOf[s] = {} \/ s \in unknown
                    /\ gw[s] = "open" => Matches(held[s], rulesOf[s])

AgreeInv == \A s \in (Core \cup Procera) \ crossed : AgreesAt(s)

(* A handler that says the same of the rules as before                     *)
Alike(h, g) ==
  /\ g.msg = h.msg
  /\ \/ g = h
     \/ h.pc \in Early /\ g.pc \in Early
     \/ h.pc \in Late /\ g.pc \in Late

LEMMA Classes ==
  /\ Early \cap Late = {}
  /\ "idle" \notin Early \cup Late /\ "send" \notin Early \cup Late
BY DEF Early, Late

LEMMA AlikeRightly ==
  ASSUME NEW t, NEW s, Alike(hand[t], hand'[t]), Rightly(t, s),
         gw'[s] = gw[s], held'[s] = held[s], rulesOf'[s] = rulesOf[s],
         s \in unknown => s \in unknown'
  PROVE  Rightly(t, s)'
<1>1. CASE hand'[t] = hand[t]
  BY <1>1 DEF Rightly
<1>2. CASE hand[t].pc \in Early /\ hand'[t].pc \in Early
  BY <1>2, Classes DEF Rightly, Alike
<1>3. CASE hand[t].pc \in Late /\ hand'[t].pc \in Late
  BY <1>3, Classes DEF Rightly, Alike
<1> QED BY <1>1, <1>2, <1>3 DEF Alike

LEMMA Elsewhere ==
  ASSUME NEW s, AgreesAt(s),
         gw'[s] = gw[s], held'[s] = held[s], rulesOf'[s] = rulesOf[s],
         s \in unknown => s \in unknown',
         \A t \in Thread : \/ Alike(hand[t], hand'[t])
                           \/ ~Handles(t, s) /\ ~Handles(t, s)'
  PROVE  AgreesAt(s)'
<1>1. ASSUME NEW t \in Thread
      PROVE  Handles(t, s)' <=> Handles(t, s)
  <2>1. Alike(hand[t], hand'[t]) => (hand'[t].pc # "idle" <=> hand[t].pc # "idle")
    BY Classes DEF Alike
  <2> QED BY <2>1 DEF Handles, At, Alike
<1>2. ASSUME NEW t \in Thread, Handles(t, s)' PROVE Rightly(t, s)'
  BY <1>1, <1>2, AlikeRightly DEF AgreesAt
<1>3. Handled(s)' <=> Handled(s)
  BY <1>1 DEF Handled
<1>4. \A t \in Thread : Handles(t, s)' => Rightly(t, s)'
  BY <1>2
<1>5. ~Handled(s)' => /\ gw'[s] = "new" => rulesOf'[s] = {} \/ s \in unknown'
                      /\ gw'[s] = "open" => Matches(held'[s], rulesOf'[s])
  BY <1>3 DEF AgreesAt
<1> QED BY <1>4, <1>5 DEF AgreesAt

LEMMA ClosedAgrees ==
  ASSUME NEW s, gw'[s] = "closed"
  PROVE  AgreesAt(s)'
BY DEF AgreesAt, Rightly

LEMMA QuietAgrees ==
  ASSUME AgreeInv, crossed \subseteq crossed', unknown \subseteq unknown',
         UNCHANGED <<gw, held, rulesOf>>,
         \A t \in Thread : Alike(hand[t], hand'[t])
  PROVE  AgreeInv'
<1>1. ASSUME NEW s \in (Core \cup Procera) \ crossed' PROVE AgreesAt(s)'
  BY <1>1, Elsewhere DEF AgreeInv
<1> QED BY <1>1 DEF AgreeInv, Core, Procera

LEMMA GoingAgrees ==
  ASSUME TypeInv, TurnInv, AgreeInv, NEW t \in Thread, hand[t].pc # "idle",
         NEW pcs, GoesOn(t, pcs), "idle" \notin pcs,
         crossed \subseteq crossed', unknown \subseteq unknown', UNCHANGED gw,
         \A r \in Session \ {At(t)} : held'[r] = held[r] /\ rulesOf'[r] = rulesOf[r],
         (/\ At(t) \in (Core \cup Procera) \ crossed'
          /\ gw[At(t)] # "closed" /\ Rightly(t, At(t)))
           => Rightly(t, At(t))'
  PROVE  AgreeInv'
<1> SUFFICES ASSUME NEW s \in (Core \cup Procera) \ crossed' PROVE AgreesAt(s)'
  BY DEF AgreeInv, Core, Procera
<1>1. AgreesAt(s) /\ s \in Session
  BY DEF AgreeInv, Core, Procera
<1>2. hand'[t].msg = hand[t].msg /\ hand'[t].pc # "idle" /\ At(t)' = At(t)
      /\ \A u \in Thread \ {t} : hand'[u] = hand[u]
  BY DEF GoesOn, At
<1>3. \A u \in Thread : \A r : Handles(u, r)' <=> Handles(u, r)
  BY <1>2 DEF Handles, At
<1>4. CASE s # At(t)
  <2>1. \A u \in Thread : \/ Alike(hand[u], hand'[u])
                          \/ ~Handles(u, s) /\ ~Handles(u, s)'
    BY <1>2, <1>3, <1>4 DEF Alike, Handles
  <2> QED BY <1>1, <1>4, <2>1, Elsewhere
<1>5. CASE s = At(t) /\ gw[s] = "closed"
  BY <1>5, ClosedAgrees
<1>6. CASE s = At(t) /\ gw[s] # "closed"
  <2>1. Handles(t, s)
    BY <1>6 DEF Handles
  <2>2. Rightly(t, s)
    BY <1>1, <2>1 DEF AgreesAt
  <2>3. Rightly(t, s)'
    <3>1. PICK r : r = At(t)
      OBVIOUS
    <3>2. r = s /\ Rightly(t, r)'
      BY <1>2, <1>6, <2>2, <3>1
    <3> QED BY <3>2
  <2>4. \A u \in Thread : Handles(u, s)' => u = t
    BY <1>1, <1>3, <1>6, <2>1, Alone
  <2>5. Handled(s)'
    BY <1>3, <2>1 DEF Handled
  <2> QED BY <2>3, <2>4, <2>5 DEF AgreesAt
<1> QED BY <1>4, <1>5, <1>6
-----------------------------------------------------------------------------
(* The steps that change no rules                                          *)
LEMMA WayAgrees ==
  ASSUME TypeInv, AgreeInv, NEW t \in Thread,
         \/ Find(t) \/ Look(t) \/ Adopt(t) \/ Get(t) \/ Insert(t) \/ Linked(t)
         \/ CacheUpdate(t) \/ Active(t) \/ Load(t)
         \/ \E served \in BOOLEAN : ListProcera(t, served)
         \/ \E c \in Session, served \in BOOLEAN : EndChild(t, c, served)
  PROVE  AgreeInv'
<1>1. UNCHANGED <<crossed, unknown, gw, held, rulesOf>>
  BY DEF Find, Look, Adopt, Get, Insert, Linked, CacheUpdate, Active, Load,
         ListProcera, EndChild, Unmoved, gateways, ruleVars
<1>2. ASSUME NEW pcs, GoesOn(t, pcs),
             \/ hand[t].pc \in Early /\ pcs \subseteq Early
             \/ hand[t].pc \in Late /\ pcs \subseteq Late
      PROVE  AgreeInv'
  <2>1. \A u \in Thread : Alike(hand[u], hand'[u])
    BY <1>2 DEF GoesOn, Alike
  <2> QED BY <1>1, <2>1, QuietAgrees
<1>3. CASE Find(t) \/ Look(t) \/ Adopt(t)
  <2>1. GoesOn(t, {"look", "fill", "insert", "store"}) /\ hand[t].pc \in Early
    BY <1>3, Going DEF Find, Look, Adopt, Early
  <2> QED BY <1>2, <2>1 DEF Early
<1>4. CASE Get(t)
  <2>1. GoesOn(t, {"store", "find", "load"}) /\ hand[t].pc \in Early
    BY <1>4, Going DEF Get, Early
  <2>2. hand'[t].pc \in Early
    BY <1>4, Carrying
  <2>3. GoesOn(t, {"store", "find"})
    BY <2>1, <2>2 DEF GoesOn, Early
  <2> QED BY <1>2, <2>1, <2>3 DEF Early
<1>5. CASE Insert(t)
  <2>1. GoesOn(t, {"store"}) /\ hand[t].pc \in Early
    BY <1>5, Going DEF Insert, Early
  <2> QED BY <1>2, <2>1 DEF Early
<1>6. CASE Linked(t) \/ \E c \in Session, served \in BOOLEAN : EndChild(t, c, served)
  <2>1. GoesOn(t, {"remove", "ending"}) /\ hand[t].pc \in Early
    BY <1>6, Going DEF Linked, EndChild, Early
  <2> QED BY <1>2, <2>1 DEF Early
<1>7. CASE CacheUpdate(t)
  <2>1. GoesOn(t, {"uli", "rules"}) /\ hand[t].pc \in Late
    BY <1>7, Going DEF CacheUpdate, Late
  <2> QED BY <1>2, <2>1 DEF Late
<1>8. CASE Active(t)
  <2>1. GoesOn(t, {"store", "find", "load"}) /\ hand[t].pc = "active"
    BY <1>8, Going DEF Active
  <2>2. hand'[t].pc = "load"
    BY <1>8, HandTypes DEF Active, Go, Fields, TypeInv, HandsType
  <2>3. GoesOn(t, {"load"})
    BY <2>1, <2>2 DEF GoesOn
  <2> QED BY <1>2, <2>1, <2>3 DEF Late
<1>9. CASE Load(t)
  <2>1. GoesOn(t, {"update", "uli", "rules"}) /\ hand[t].pc \in Late
    BY <1>9, GoingToLoad DEF Load, Late
  <2> QED BY <1>2, <2>1 DEF Late
<1>10. CASE \E served \in BOOLEAN : ListProcera(t, served)
  <2>1. GoesOn(t, {"rules", "rar"}) /\ hand[t].pc \in Late
    BY <1>10, Going DEF ListProcera, Late
  <2> QED BY <1>2, <2>1 DEF Late
<1> QED BY <1>3, <1>4, <1>5, <1>6, <1>7, <1>8, <1>9, <1>10

LEMMA OthersAgree ==
  ASSUME TypeInv, AgreeInv,
         \/ \E s \in Session : Apply(s) \/ TakeAbort(s) \/ Visit(s)
         \/ TakeRefresh
         \/ \E p \in DOMAIN Profiles : ChangeProfile(p)
         \/ \E t \in Thread : NullConnection(t)
         \/ UNCHANGED vars
  PROVE  AgreeInv'
<1>1. ASSUME NEW s \in Session, Visit(s)
      PROVE  /\ UNCHANGED <<gw, held, rulesOf, hand>>
             /\ crossed \subseteq crossed' /\ unknown \subseteq unknown'
  BY <1>1 DEF Visit, Skip, Release, Compare, gateways, ruleVars
<1>2. /\ UNCHANGED <<gw, held, rulesOf, hand>>
      /\ crossed \subseteq crossed' /\ unknown \subseteq unknown'
  BY <1>1 DEF Apply, TakeAbort, TakeRefresh, ChangeProfile, NullConnection, vars,
              gateways, ruleVars
<1> QED BY <1>2, QuietAgrees DEF Alike

-----------------------------------------------------------------------------
(* The end of a session and the report of failed rules                     *)
LEMMA EndAgrees ==
  ASSUME IInv, TypeInv, TurnInv, AgreeInv, NEW t \in Thread, End(t)
  PROVE  AgreeInv'
<1>1. GoesOn(t, {"store"})
  BY Going
<1>2. /\ UNCHANGED <<gw, held, unknown, crossed>> /\ hand[t].pc # "idle"
      /\ rulesOf' = [rulesOf EXCEPT ![At(t)] = {}]
  BY DEF End, RemoveSession, Forgotten, gateways
<1>3. gw[At(t)] = "closed"
  BY DEF IInv, EndInv, End
<1>4. \A r \in Session \ {At(t)} : held'[r] = held[r] /\ rulesOf'[r] = rulesOf[r]
  BY <1>2
<1> QED BY <1>1, <1>2, <1>3, <1>4, GoingAgrees

LEMMA StoreAgrees ==
  ASSUME TypeInv, DataInv, TurnInv, AgreeInv, NEW t \in Thread, Store(t)
  PROVE  AgreeInv'
<1> DEFINE s == At(t)
           closed == IF Type[hand[t].msg] = "INITIAL" THEN {}
                     ELSE Reported(hand[t].msg)
<1>1. /\ GoesOn(t, {"load", "active", "update", "uli", "rules"})
      /\ hand[t].pc = "store" /\ s \in Session
  BY GoingToLoad, HandTypes DEF Store
<1>2. /\ UNCHANGED <<gw, held, unknown>> /\ crossed \subseteq crossed'
      /\ rulesOf' = Exchanged(s, closed, {})
  BY DEF Store, gateways
<1>3. \A r \in Session \ {s} : held'[r] = held[r] /\ rulesOf'[r] = rulesOf[r]
  BY <1>2 DEF Exchanged
<1>4. rulesOf'[s] = rulesOf[s] \ closed
  BY <1>1, <1>2 DEF Exchanged, DataInv, FiniteStores
<1>5. hand'[t].pc \in Late /\ hand'[t].pc # "send" /\ hand'[t].pc \notin Early
      /\ hand[t].pc \in Early /\ hand[t].pc # "send"
  BY <1>1 DEF GoesOn, Late, Early
<1>6. InTurn(t)
  BY <1>1 DEF TurnInv
<1>7. At(t)' = s /\ hand'[t].msg = hand[t].msg
  BY <1>1 DEF GoesOn, At
<1>8. ASSUME Rightly(t, s), gw[s] # "closed" PROVE Rightly(t, s)'
  <2>1. gw[s] = "opening" => s \in unknown \/ rulesOf[s] = {}
    BY <1>5, <1>8 DEF Rightly
  <2>2. gw[s] = "open" => Matches(held[s], rulesOf[s] \ closed)
    <3>1. gw[s] = "open" => Type[hand[t].msg] # "INITIAL"
      BY <1>6 DEF InTurn
    <3> QED BY <1>5, <1>8, <3>1 DEF Rightly
  <2> HIDE DEF closed
  <2>3. PICK r : r = s
    OBVIOUS
  <2>4. Rightly(t, r)'
    BY <1>2, <1>4, <1>5, <2>1, <2>2, <2>3 DEF Rightly
  <2> QED BY <1>7, <2>3, <2>4
<1> QED BY <1>1, <1>2, <1>3, <1>8, GoingAgrees
-----------------------------------------------------------------------------
LEMMA GatewayDialects ==
  ASSUME NEW s \in Core \cup Procera
  PROVE  s \in Session /\ DialectOf[s] \in GatewayDialect /\ DialectOf[s] # "SCE"
BY DEF Core, Procera, GatewayDialect, CoreDialect

(* The answer carries out what the handler does to the cache.              *)
LEMMA AnswerConveys ==
  ASSUME TypeInv, DataInv, NEW t \in Thread, hand[t].pc = "rules",
         At(t) \in Core \cup Procera, Type[hand[t].msg] \in {"INITIAL", "UPDATE"},
         NEW answer,
         answer = <<AVP("Result-Code", hand[t].code)>> \o AnswerRules(t)
                    \o AnswerTail(t)
  PROVE  /\ Operates(hand[t]) => Conveys(answer, hand[t].active, hand[t].rules)
         /\ ~Operates(hand[t]) => Silent(answer)
         /\ Type[hand[t].msg] = "INITIAL" => Operates(hand[t])
<1> DEFINE h == hand[t]
           first == <<AVP("Result-Code", h.code)>>
           dialect == DialectOf[At(t)]
<1>1. /\ h.msg \in DOMAIN Message /\ HandData(h) /\ dialect \in GatewayDialect
      /\ dialect # "SCE"
  BY GatewayDialects, HandTypes DEF DataInv
<1>2. /\ RuleList(h.rules) /\ BareList(h.active) /\ IsFiniteSet(DOMAIN h.quotas)
      /\ Type[h.msg] = "INITIAL" => h.active = <<>> /\ Operates(h)
  BY <1>1 DEF HandData, At, Initiates, Operates
<1>3. Silent(first)
  BY SilentShort DEF RuleGroups
<1>4. Silent(AnswerTail(t))
  BY TailSilent
<1>5. /\ Operates(h) => Conveys(AnswerRules(t), h.active, h.rules)
      /\ ~Operates(h) => Silent(AnswerRules(t))
  <2>1. CASE Type[h.msg] = "INITIAL"
    <3>1. Conveys(InitialAnswer(h, dialect), <<>>, h.rules)
      BY <1>1, <1>2, InitialSays
    <3> QED BY <1>2, <2>1, <3>1 DEF AnswerRules
  <2>2. CASE Type[h.msg] = "UPDATE"
    <3>1. IF Operates(h) THEN Conveys(UpdateAnswer(h, dialect), h.active, h.rules)
                         ELSE Silent(UpdateAnswer(h, dialect))
      BY <1>1, <1>2, UpdateSays
    <3>2. AnswerRules(t) = UpdateAnswer(h, dialect)
      BY <2>2 DEF AnswerRules
    <3> QED BY <3>1, <3>2
  <2> QED BY <2>1, <2>2
<1> HIDE DEF first, h
<1>6. ASSUME Conveys(AnswerRules(t), h.active, h.rules)
      PROVE  Conveys((first \o AnswerRules(t)) \o AnswerTail(t), h.active, h.rules)
  <2>1. Conveys(first \o AnswerRules(t), h.active, h.rules)
    BY <1>3, <1>6, AfterSilence
  <2> QED BY <1>4, <2>1, BeforeSilence
<1>7. ASSUME Silent(AnswerRules(t))
      PROVE  Silent((first \o AnswerRules(t)) \o AnswerTail(t))
  BY <1>3, <1>4, <1>7, SilentJoined
<1>8. answer = (first \o AnswerRules(t)) \o AnswerTail(t)
  BY DEF first, h
<1> QED BY <1>2, <1>5, <1>6, <1>7, <1>8 DEF h

LEMMA RulesAgrees ==
  ASSUME TypeInv, DataInv, TurnInv, AgreeInv, NEW t \in Thread, Rules(t)
  PROVE  AgreeInv'
<1> DEFINE s == At(t)
           h == hand[t]
           operates == Operates(h) /\ Type[h.msg] # "TERMINATION"
           answer == <<AVP("Result-Code", h.code)>> \o AnswerRules(t)
                       \o AnswerTail(t)
<1>1. /\ GoesOn(t, {"send"}) /\ h.pc = "rules" /\ s \in Session
      /\ DOMAIN hand = Thread /\ HandData(h)
  BY Going, HandTypes DEF Rules, TypeInv, HandsType, DataInv
<1>2. /\ UNCHANGED <<gw, held, unknown>> /\ crossed \subseteq crossed'
      /\ hand'[t].pc = "send" /\ hand'[t].answer = answer
      /\ hand'[t].code = h.code /\ hand'[t].msg = h.msg
  BY <1>1 DEF Rules, gateways, Go, Idle
<1>3. /\ operates => rulesOf' = Exchanged(s, Closed(h.active), New(h.rules))
      /\ ~operates => rulesOf' = rulesOf
  BY DEF Rules, OperateRules
<1>4. \A r \in Session \ {s} : held'[r] = held[r] /\ rulesOf'[r] = rulesOf[r]
  <2>1. CASE operates
    <3>1. rulesOf' = Exchanged(s, Closed(h.active), New(h.rules))
      BY <1>3, <2>1
    <3> QED BY <1>2, <3>1 DEF Exchanged, DataInv, FiniteStores
  <2>2. CASE ~operates
    BY <1>2, <1>3, <2>2
  <2> QED BY <2>1, <2>2
<1>5. /\ operates => rulesOf'[s] = Operated(rulesOf[s], h.active, h.rules)
      /\ ~operates => rulesOf'[s] = rulesOf[s]
  BY <1>1, <1>3 DEF Exchanged, Operated, DataInv, FiniteStores
<1>6. InTurn(t) /\ h.pc \in Late
  BY <1>1 DEF TurnInv, Late
<1>7. ASSUME Rightly(t, s), gw[s] # "closed", s \in Core \cup Procera
      PROVE  Rightly(t, s)'
  <2>1. Type[h.msg] \in {"INITIAL", "UPDATE"}
    BY <1>1, <1>6, <1>7, HandTypes DEF InTurn
  <2>2. /\ Operates(h) => Conveys(answer, h.active, h.rules)
        /\ ~Operates(h) => Silent(answer)
        /\ Type[h.msg] = "INITIAL" => Operates(h)
    BY <1>1, <1>7, <2>1, AnswerConveys
  <2> HIDE DEF answer
  <2>3. ASSUME gw[s] = "open"
        PROVE  Matches(Applied(held[s], answer), rulesOf'[s])
    <3>1. Matches(held[s], rulesOf[s])
      BY <1>6, <1>7, <2>3 DEF Rightly
    <3>2. CASE Operates(h)
      <4>1. Operating(answer, h.active, h.rules)
        BY <2>2, <3>2 DEF Conveys
      <4>2. Matches(Applied(held[s], answer),
                    Operated(rulesOf[s], h.active, h.rules))
        BY <3>1, <4>1, MatchingExchange
      <4> QED BY <1>5, <2>1, <3>2, <4>2
    <3>3. CASE ~Operates(h)
      <4>1. Applied(held[s], answer) = held[s]
        BY <2>2, <3>3, SilentApplied
      <4> QED BY <1>5, <3>1, <3>3, <4>1
    <3> QED BY <3>2, <3>3
  <2>4. ASSUME gw[s] = "opening", s \notin unknown
        PROVE  /\ Matches(Applied({}, answer), rulesOf'[s])
               /\ h.code # 2001 => rulesOf'[s] = {}
    <3>1. rulesOf[s] = {} /\ Type[h.msg] = "INITIAL"
      BY <1>1, <1>6, <1>7, <2>1, <2>4 DEF Rightly, InTurn
    <3>2. Operating(answer, h.active, h.rules) /\ Initiates(h)
      BY <1>1, <2>2, <3>1 DEF Conveys, HandData
    <3>3. Matches({}, rulesOf[s])
      BY <3>1 DEF Matches
    <3>4. Matches(Applied({}, answer), Operated(rulesOf[s], h.active, h.rules))
      BY <3>2, <3>3, MatchingExchange
    <3>5. rulesOf'[s] = Operated(rulesOf[s], h.active, h.rules)
      BY <1>5, <2>2, <3>1
    <3>6. h.code # 2001 => rulesOf'[s] = {}
      BY <3>1, <3>2, <3>5, NothingComes DEF Initiates, Operated
    <3> QED BY <3>4, <3>5, <3>6
  <2>5. PICK r : r = s
    OBVIOUS
  <2>6. Rightly(t, r)'
    BY <1>2, <2>3, <2>4, <2>5, Classes DEF Rightly
  <2>7. At(t)' = s
    BY <1>2 DEF At
  <2> QED BY <2>5, <2>6, <2>7
<1> QED BY <1>1, <1>2, <1>4, <1>7, GoingAgrees
-----------------------------------------------------------------------------
LEMMA SendAgrees ==
  ASSUME TypeInv, TurnInv, HeldInv, AgreeInv, NEW t \in Thread, Send(t)
  PROVE  AgreeInv'
<1> SUFFICES ASSUME NEW r \in (Core \cup Procera) \ crossed' PROVE AgreesAt(r)'
  BY DEF AgreeInv, Core, Procera
<1>0. PICK s : s = At(t)
  OBVIOUS
<1>1. /\ hand[t].pc = "send" /\ s \in Session /\ DOMAIN hand = Thread
      /\ DOMAIN gw = Session /\ DOMAIN held = Session
  BY <1>0, HandTypes DEF Send, TypeInv, HandsType, GatewayType, HeldInv
<1>2. /\ hand'[t].pc = "idle" /\ \A u \in Thread \ {t} : hand'[u] = hand[u]
      /\ UNCHANGED <<unknown, rulesOf>> /\ crossed \subseteq crossed'
  BY <1>1 DEF Send, Go, Idle, ruleVars
<1>3. AgreesAt(r) /\ r \in Session
  BY <1>2 DEF AgreeInv, Core, Procera
<1>4. CASE r # s
  <2>1. gw'[r] = gw[r] /\ held'[r] = held[r]
    BY <1>0, <1>1, <1>3, <1>4 DEF Send
  <2>2. \A u \in Thread : \/ Alike(hand[u], hand'[u])
                          \/ ~Handles(u, r) /\ ~Handles(u, r)'
    BY <1>0, <1>2, <1>4 DEF Alike, Handles
  <2> QED BY <1>2, <1>3, <2>1, <2>2, Elsewhere
<1>5. CASE r = s
  <2>1. Handles(t, s) /\ Rightly(t, s)
    BY <1>0, <1>1, <1>3, <1>5 DEF Handles, AgreesAt
  <2>2. CASE gw[s] = "closed"
    <3>1. gw'[s] = "closed"
      BY <1>0, <1>1, <2>2 DEF Send
    <3> QED BY <1>5, <3>1, ClosedAgrees
  <2>3. CASE gw[s] # "closed"
    <3>1. ~Handled(s)'
      <4>1. \A u \in Thread \ {t} : ~Handles(u, s)
        BY <1>1, <2>1, <2>3, Alone
      <4>2. \A u \in Thread \ {t} : Handles(u, s)' <=> Handles(u, s)
        BY <1>2 DEF Handles, At
      <4>3. ~Handles(t, s)'
        BY <1>2 DEF Handles
      <4> QED BY <4>1, <4>2, <4>3 DEF Handled
    <3>2. CASE gw[s] = "open"
      <4>1. gw'[s] = "open" /\ held'[s] = Applied(held[s], hand[t].answer)
        BY <1>0, <1>1, <3>2 DEF Send
      <4>2. Matches(held'[s], rulesOf'[s])
        BY <1>1, <1>2, <2>1, <3>2, <4>1 DEF Rightly
      <4> QED BY <1>5, <3>1, <4>1, <4>2 DEF AgreesAt, Handled
    <3>3. CASE gw[s] = "opening"
      <4>1. Type[hand[t].msg] = "INITIAL"
        BY <1>1, <2>1, <3>3, Alone
      <4>2. s \notin unknown
        BY <1>0, <1>5, <3>3, <4>1 DEF Send
      <4>3. /\ Matches(Applied({}, hand[t].answer), rulesOf[s])
            /\ hand[t].code # 2001 => rulesOf[s] = {}
        BY <1>1, <2>1, <3>3, <4>2 DEF Rightly
      <4>4. held[s] = {}
        BY <1>1, <3>3 DEF HeldInv
      <4>5. /\ hand[t].code = 2001 => /\ gw'[s] = "open"
                                      /\ held'[s] = Applied({}, hand[t].answer)
            /\ hand[t].code # 2001 => gw'[s] = "new"
        BY <1>0, <1>1, <3>3, <4>1, <4>4 DEF Send
      <4> QED BY <1>2, <1>5, <3>1, <4>3, <4>5 DEF AgreesAt, Handled
    <3>4. gw[s] # "new"
      BY <1>1, <2>1, Alone DEF Handled
    <3> QED BY <1>1, <2>3, <3>2, <3>3, <3>4 DEF TypeInv, GatewayType, Gateway
  <2> QED BY <2>2, <2>3
<1> QED BY <1>4, <1>5

LEMMA ReceiveAgrees ==
  ASSUME TypeInv, TurnInv, HeldInv, AgreeInv, NEW t \in Thread,
         NEW m \in DOMAIN Message, NEW conn \in BOOLEAN, Receive(t, m, conn)
  PROVE  AgreeInv'
<1> SUFFICES ASSUME NEW r \in (Core \cup Procera) \ crossed' PROVE AgreesAt(r)'
  BY DEF AgreeInv, Core, Procera
<1>0. PICK s : s = SessionOf[m]
  OBVIOUS
<1>1. /\ hand[t].pc = "idle" /\ s \in Session /\ DOMAIN hand = Thread
      /\ DOMAIN gw = Session /\ DOMAIN held = Session
      /\ Type[m] \in {"INITIAL", "UPDATE", "TERMINATION"}
  BY <1>0, MessageAssumption DEF Receive, TypeInv, HandsType, GatewayType, HeldInv
<1>2. /\ hand'[t].pc = FirstStep(DialectOf[s], Type[m]) /\ hand'[t].msg = m
      /\ \A u \in Thread \ {t} : hand'[u] = hand[u]
      /\ UNCHANGED <<unknown, rulesOf, crossed>>
  BY <1>0, <1>1 DEF Receive, Go, Idle, ruleVars
<1>3. AgreesAt(r) /\ r \in Session
  BY <1>2 DEF AgreeInv, Core, Procera
<1>4. hand'[t].pc \in Early
  BY <1>1, <1>2 DEF FirstStep, Early
<1>5. CASE r # s
  <2>1. gw'[r] = gw[r] /\ held'[r] = held[r]
    BY <1>0, <1>1, <1>3, <1>5 DEF Receive
  <2>2. \A u \in Thread : \/ Alike(hand[u], hand'[u])
                          \/ ~Handles(u, r) /\ ~Handles(u, r)'
    BY <1>0, <1>1, <1>2, <1>5 DEF Alike, Handles, At
  <2> QED BY <1>2, <1>3, <2>1, <2>2, Elsewhere
<1>6. CASE r = s
  <2>1. CanSend(s, Type[m])
    BY <1>0 DEF Receive
  <2>2. CASE Type[m] = "TERMINATION"
    <3>1. gw'[s] = "closed"
      BY <1>0, <1>1, <2>2 DEF Receive
    <3> QED BY <1>6, <3>1, ClosedAgrees
  <2>3. CASE Type[m] # "TERMINATION"
    <3>1. ~Handled(s)
      BY <1>1, <2>1, <2>3, Alone DEF CanSend, Handled
    <3>2. \A u \in Thread : Handles(u, s)' => u = t
      BY <1>2, <3>1 DEF Handles, At, Handled
    <3>3. Handled(s)'
      BY <1>0, <1>2, <1>4, Classes DEF Handled, Handles, At
    <3>4. CASE Type[m] = "INITIAL"
      <4>1. gw[s] = "new" /\ gw'[s] = "opening"
        BY <1>0, <1>1, <2>1, <3>4 DEF Receive, CanSend
      <4>2. rulesOf[s] = {} \/ s \in unknown
        BY <1>3, <1>6, <3>1, <4>1 DEF AgreesAt
      <4>3. Rightly(t, s)'
        BY <1>2, <1>4, <4>1, <4>2, Classes DEF Rightly
      <4> QED BY <1>6, <3>2, <3>3, <4>3 DEF AgreesAt
    <3>5. CASE Type[m] = "UPDATE"
      <4>1. gw[s] = "open" /\ gw'[s] = "open"
            /\ held'[s] = {q \in held[s] : q[2] \notin Reported(m)}
        BY <1>0, <1>1, <2>1, <3>5 DEF Receive, CanSend
      <4>2. Matches(held[s], rulesOf[s])
        BY <1>3, <1>6, <3>1, <4>1 DEF AgreesAt
      <4>3. Matches(held'[s], rulesOf[s] \ Reported(m))
        BY <4>1, <4>2 DEF Matches
      <4>4. Rightly(t, s)'
        BY <1>2, <1>4, <4>1, <4>3, Classes DEF Rightly
      <4> QED BY <1>6, <3>2, <3>3, <4>4 DEF AgreesAt
    <3> QED BY <1>1, <2>3, <3>4, <3>5
  <2> QED BY <2>2, <2>3
<1> QED BY <1>5, <1>6

LEMMA RaaAgrees ==
  ASSUME TypeInv, DataInv, TurnInv, AgreeInv, NEW s \in Session, Raa(s)
  PROVE  AgreeInv'
<1> SUFFICES ASSUME NEW r \in (Core \cup Procera) \ crossed' PROVE AgreesAt(r)'
  BY DEF AgreeInv, Core, Procera
<1>1. /\ UNCHANGED <<gw, held, hand>> /\ crossed \subseteq crossed'
      /\ unknown' = unknown \ {s} /\ rulesOf' = Forgotten(s)
  BY DEF Raa, RemoveSession
<1>2. AgreesAt(r) /\ r \in Session
  BY <1>1 DEF AgreeInv, Core, Procera
<1>3. /\ rulesOf'[s] = {}
      /\ \A q \in Session \ {s} : rulesOf'[q] = rulesOf[q]
  BY <1>1 DEF Forgotten, DataInv, FiniteStores
<1>4. CASE r # s
  <2>1. \A u \in Thread : Alike(hand[u], hand'[u])
    BY <1>1 DEF Alike
  <2> QED BY <1>1, <1>2, <1>3, <1>4, <2>1, Elsewhere
<1>5. CASE r = s
  <2>1. gw[s] \in {"new", "closed"}
    BY <1>5 DEF Raa, TypeInv, GatewayType, Gateway
  <2>2. gw[s] = "new" => ~Handled(s)
    BY <2>1, Alone
  <2>3. Handled(s)' <=> Handled(s)
    BY <1>1 DEF Handled, Handles, At
  <2>4. \A t \in Thread : Handles(t, s)' => Rightly(t, s)'
    BY <1>1, <2>1 DEF Rightly
  <2> QED BY <1>1, <1>3, <1>5, <2>1, <2>4 DEF AgreesAt
<1> QED BY <1>4, <1>5
-----------------------------------------------------------------------------
(* A RAR with what is done to the cache.  It crosses a handler of the same *)
(* session unless that one is past its report and before its answer.       *)
LEMMA ReAuthAgrees ==
  ASSUME IInv, TypeInv, DataInv, TurnInv, HeldInv, AgreeInv,
         NEW s \in Session, NEW avps, NEW active, NEW rules, NEW sender,
         ReAuth(s, avps, sender), OperateRules(s, active, rules),
         s \in Core \cup Procera => Conveys(avps, active, rules),
         \A t \in Thread : Alike(hand[t], hand'[t]),
         \A t \in Thread : t = sender => /\ hand[t].pc \in Late
                                         /\ Type[hand[t].msg] = "UPDATE"
  PROVE  AgreeInv'
<1> SUFFICES ASSUME NEW r \in (Core \cup Procera) \ crossed' PROVE AgreesAt(r)'
  BY DEF AgreeInv, Core, Procera
<1>1. /\ gw' = gw /\ crossed \subseteq crossed' /\ unknown \subseteq unknown'
      /\ Crossing(s, sender) \subseteq crossed'
      /\ gw[s] # "open" => s \in unknown' /\ held' = held
      /\ gw[s] = "open" => held' = [held EXCEPT ![s] = Applied(@, avps)]
  BY DEF ReAuth
<1>2. AgreesAt(r) /\ r \in Session
  BY <1>1 DEF AgreeInv, Core, Procera
<1>3. /\ DOMAIN held = Session /\ DOMAIN rulesOf = Session
      /\ rulesOf' = Exchanged(s, Closed(active), New(rules))
  BY DEF HeldInv, DataInv, FiniteStores, OperateRules
<1>4. CASE r # s
  <2>1. held'[r] = held[r] /\ rulesOf'[r] = rulesOf[r]
    BY <1>1, <1>2, <1>3, <1>4 DEF Exchanged
  <2> QED BY <1>1, <1>2, <1>4, <2>1, Elsewhere
<1>5. CASE r = s
  <2>1. \A t \in Thread : Handles(t, s)' => Handles(t, s)
    BY Classes DEF Handles, At, Alike
  <2>2. Handled(s) => Handled(s)'
    BY Classes DEF Handled, Handles, At, Alike
  <2>3. \A t \in Thread \ {sender} : Handles(t, s) =>
          hand[t].pc # "send" /\ gw[s] # "opening" /\ ~Reporting(t)
    BY <1>1, <1>5 DEF Crossing
  <2>4. CASE gw[s] = "closed"
    BY <1>1, <1>5, <2>4, ClosedAgrees
  <2>5. CASE gw[s] = "new"
    <3>1. ~Handled(s)
      BY <2>5, Alone
    <3>2. \A t \in Thread : ~Handles(t, s)'
      BY <2>1, <3>1 DEF Handled
    <3> QED BY <1>1, <1>5, <2>5, <3>2 DEF AgreesAt
  <2>6. CASE gw[s] = "opening"
    <3>1. \A t \in Thread : ~Handles(t, s)
      BY <2>3, <2>6, Alone
    <3> QED BY <1>1, <1>5, <2>1, <2>6, <3>1 DEF AgreesAt
  <2>7. CASE gw[s] = "open"
    <3>1. /\ held'[s] = Applied(held[s], avps)
          /\ rulesOf'[s] = Operated(rulesOf[s], active, rules)
      BY <1>1, <1>3, <2>7 DEF Exchanged, Operated
    <3>2. Operating(avps, active, rules)
      BY <1>5 DEF Conveys
    <3>3. Matches(held[s], rulesOf[s]) => Matches(held'[s], rulesOf'[s])
      BY <3>1, <3>2, MatchingExchange
    <3>4. ~Handled(s)' => Matches(held'[s], rulesOf'[s])
      BY <1>2, <1>5, <2>2, <2>7, <3>3 DEF AgreesAt
    <3>5. ASSUME NEW t \in Thread, Handles(t, s)' PROVE Rightly(t, s)'
      <4>1. Handles(t, s) /\ Rightly(t, s) /\ InTurn(t)
            /\ Type[hand[t].msg] = "UPDATE" /\ gw[At(t)] = "open"
        BY <1>2, <1>5, <2>1, <2>7, <3>5, Alone DEF AgreesAt, Handles
      <4>2. hand[t].pc # "send" /\ hand[t].pc # "idle"
        BY <2>3, <4>1, Classes DEF Handles
      <4>3. CASE hand[t].pc \in Late
        <5>1. hand'[t].pc \in Late /\ hand'[t].pc # "send" /\ hand'[t].pc \notin Early
          BY <4>3, Classes DEF Alike
        <5>2. Matches(held'[s], rulesOf'[s])
          BY <2>7, <3>3, <4>1, <4>3 DEF Rightly
        <5> QED BY <1>1, <2>7, <5>1, <5>2 DEF Rightly
      <4>4. CASE hand[t].pc \in Early
        <5>1. hand[t].pc \notin {"insert", "linked", "ending", "remove"}
          BY <4>1 DEF InTurn, IInv, EndInv
        <5>2. t # sender
          BY <4>4, Classes
        <5>3. Reported(hand[t].msg) = {}
          BY <2>3, <4>1, <4>4, <5>1, <5>2 DEF Reporting, Early
        <5>4. Matches(held'[s], rulesOf'[s])
          BY <2>7, <3>3, <4>1, <4>4, <5>3 DEF Rightly
        <5>5. hand'[t].pc \in Early /\ hand'[t].msg = hand[t].msg
              /\ hand'[t].pc # "send" /\ hand'[t].pc \notin Late
          BY <4>4, Classes DEF Alike
        <5>6. Matches(held'[s], rulesOf'[s] \ Reported(hand'[t].msg))
          BY <5>3, <5>4, <5>5
        <5> QED BY <1>1, <2>7, <5>5, <5>6 DEF Rightly
      <4>5. hand[t].pc \in PC
        BY HandTypes
      <4> QED BY <4>2, <4>3, <4>4, <4>5 DEF PC, Early, Late
    <3>6. \A t \in Thread : Handles(t, s)' => Rightly(t, s)'
      BY <3>5
    <3> QED BY <1>1, <1>5, <2>7, <3>4, <3>6 DEF AgreesAt
  <2> QED BY <2>4, <2>5, <2>6, <2>7 DEF TypeInv, GatewayType, Gateway
<1> QED BY <1>4, <1>5

LEMMA ChangeUliAgrees ==
  ASSUME IInv, TypeInv, DataInv, TurnInv, HeldInv, AgreeInv, NEW t \in Thread,
         NEW p \in Session, NEW served \in BOOLEAN, ChangeUli(t, p, served)
  PROVE  AgreeInv'
<1> DEFINE old == hand[t].old \o PlaceRules(p)
           new == <<ProceraRule(UliRule(Cell(hand[t].data.location), <<>>))>>
           crr == MakeCRR("Procera", old)
           cri == MakeCRI("Procera", {}, EmptyRequest, new)
<1>1. /\ GoesOn(t, {"rules", "rar"}) /\ hand[t].pc = "rar" /\ p \in hand[t].todo
      /\ HandData(hand[t])
  BY Going DEF ChangeUli, DataInv
<1>2. \A u \in Thread : Alike(hand[u], hand'[u])
  BY <1>1 DEF GoesOn, Alike, Late
<1>3. CASE ~served
  <2>1. UNCHANGED <<gw, held, unknown, rulesOf, crossed>>
    BY <1>3 DEF ChangeUli, gateways
  <2> QED BY <1>2, <2>1, QuietAgrees
<1>4. CASE served
  <2>1. p \in Procera /\ DialectOf[p] = "Procera"
    BY <1>1 DEF HandData, Procera
  <2>2. BareList(old)
    <3>1. BareList(hand[t].old) /\ BareList(PlaceRules(p))
      BY <1>1, PlaceList DEF HandData, DataInv, FiniteStores
    <3> QED BY <3>1, JoinedBare
  <2>3. RuleList(new)
    BY ShortLists, ProceraRules DEF RuleList
  <2>4. OperateRules(p, old, new) /\ ReAuth(p, crr \o cri, t)
    BY <1>4 DEF ChangeUli
  <2> HIDE DEF old, new
  <2>5. Conveys(crr \o cri, old, new)
    BY <2>2, <2>3, RemovesAndInstalls, SilentShort DEF GatewayDialect
  <2>6. hand[t].pc \in Late /\ Type[hand[t].msg] = "UPDATE"
    BY <1>1 DEF TurnInv, InTurn, UpdateSteps, Late
  <2> HIDE DEF crr, cri
  <2> QED BY <1>2, <2>4, <2>5, <2>6, ReAuthAgrees
<1> QED BY <1>3, <1>4

LEMMA RefreshAgrees ==
  ASSUME IInv, TypeInv, DataInv, TurnInv, HeldInv, AgreeInv, Refresh
  PROVE  AgreeInv'
<1> DEFINE s == client.at
           quotas == Granted({}, MonitoringKeys(client.rules))
           avps == EventTriggers(RefreshTriggers(DialectOf[s], client.keys))
                     \o MakeCRR(DialectOf[s], client.active)
                     \o MakeUMI(quotas, FALSE)
                     \o MakeCRI(DialectOf[s], {}, EmptyRequest, client.rules)
<1>1. /\ s \in Session /\ client.pc = "send" /\ UNCHANGED hand
      /\ OperateRules(s, client.active, client.rules)
      /\ ReAuth(s, avps, NoSession)
  BY DEF Refresh, TypeInv, ClientType
<1>2. IsFiniteSet(DOMAIN quotas)
  <2>1. DOMAIN quotas \in SUBSET (DOMAIN Quota)
    BY DEF Granted
  <2>2. IsFiniteSet(DOMAIN Quota)
    BY RuleAssumption
  <2> QED BY <2>1, <2>2, FS_Subset
<1> HIDE DEF quotas
<1>3. ASSUME s \in Core \cup Procera
      PROVE  Conveys(avps, client.active, client.rules)
  <2>1. /\ DialectOf[s] \in GatewayDialect
        /\ BareList(client.active) /\ RuleList(client.rules)
    BY <1>1, <1>3, GatewayDialects DEF DataInv, ClientData
  <2> QED BY <1>2, <2>1, RefreshSays
<1>4. \A t \in Thread : t # NoSession
  BY SessionAssumption
<1>5. \A t \in Thread : Alike(hand[t], hand'[t])
  BY <1>1 DEF Alike
<1> HIDE DEF avps
<1> QED BY <1>1, <1>3, <1>4, <1>5, ReAuthAgrees

RulesInv == IInv /\ TypeInv /\ DataInv /\ TurnInv /\ HeldInv /\ AgreeInv

LEMMA AgreeStep == RulesInv /\ [Next]_vars => AgreeInv'
<1> SUFFICES ASSUME RulesInv, [Next]_vars PROVE AgreeInv'
  OBVIOUS
<1> USE DEF RulesInv
<1>1. ASSUME NEW t \in Thread, Handle(t) PROVE AgreeInv'
  BY <1>1, WayAgrees, EndAgrees, StoreAgrees, RulesAgrees, SendAgrees,
     ReceiveAgrees, ChangeUliAgrees, OthersAgree DEF Handle
<1>2. ASSUME NEW s \in Session, Apply(s) \/ Raa(s) \/ TakeAbort(s) \/ Visit(s)
      PROVE  AgreeInv'
  BY <1>2, OthersAgree, RaaAgrees
<1> QED BY <1>1, <1>2, RefreshAgrees, OthersAgree DEF Next

LEMMA AgreeInitially == Init => AgreeInv
BY DEF Init, AgreeInv, AgreesAt, Handles, Idle, Core, Procera

(* Types, what is held, whose turn it is, what a handler holds for its     *)
(* gateway and what it says of the rules: all of it stays true of the      *)
(* handlers, the refresh thread and the gateways in any order of steps.    *)
THEOREM RulesInvariance == Spec => []RulesInv
<1>1. Init => RulesInv
  BY Initially, TypesInitially, DataInitially, TurnInitially, AgreeInitially
     DEF RulesInv
<1>2. RulesInv /\ [Next]_vars => RulesInv'
  BY Step, TypeStep, DataStep, TurnStep, HeldStep, AgreeStep DEF RulesInv
<1> QED BY <1>1, <1>2, PTL DEF Spec

LEMMA PlainRules ==
  ASSUME NEW rules, NEW n
  PROVE  n \in Plain(rules) <=> <<"Charging-Rule-Name", n>> \in rules
BY DEF Plain

(* The cache of session rules, which says what the next answer removes,    *)
(* has the rules the gateway has installed, unless two threads changed     *)
(* them at a time: whatever updates, refreshes, reports of failed rules,   *)
(* changes of location and late databases did to the session.              *)
THEOREM RulesAlwaysAgree == Spec => []RulesAgree
<1>1. RulesInv => RulesAgree
  <2> SUFFICES ASSUME RulesInv, NEW s \in Core \cup Procera, gw[s] = "open",
                      s \notin crossed, ~Handled(s)
               PROVE  Plain(held[s]) \ Unaccounted = rulesOf[s] \ Unaccounted
    BY DEF RulesAgree
  <2>1. Matches(held[s], rulesOf[s])
    BY DEF RulesInv, AgreeInv, AgreesAt
  <2> QED BY <2>1, PlainRules DEF Matches
<1> QED BY <1>1, RulesInvariance, PTL
-----------------------------------------------------------------------------
(* What the refresh thread compared, and how long it can count on it.  A   *)
(* rule that is loaded and active stays, any other that is active goes,    *)
(* any other that is loaded comes; and the active ones are those of the    *)
(* cache as long as no other thread has changed them, from the comparison  *)
(* to the RAR, while the session is open or its answer is about to open it. *)
Ready(s) ==
  \/ gw[s] = "open"
  \/ gw[s] = "opening" /\ \E t \in Thread : Handles(t, s) /\ hand[t].pc = "send"

Separates(active, rules) ==
  /\ Closed(active) = Names(active) \ Names(rules)
  /\ New(rules) = (Names(rules) \ Names(active)) \ {<<>>}

ComparedAt(s, active, rules) ==
  /\ Separates(active, rules)
  /\ s \notin crossed /\ Ready(s) => rulesOf[s] = Names(active)

ComparedInv ==
  client.pc = "send" /\ client.at \in Core \cup Procera
    => ComparedAt(client.at, client.active, client.rules)

LEMMA ClosedNames ==
  ASSUME NEW active, IsList(active), NEW n
  PROVE  n \in Closed(active) <=>
           \E i \in DOMAIN active : ~active[i].relevant /\ active[i].name = n
<1> DEFINE gone == NotRelevant(active)
           positions == {i \in DOMAIN active : ~active[i].relevant}
<1>1. gone = Picked(active, positions)
  BY DEF NotRelevant
<1>2. /\ \A j \in DOMAIN gone : \E i \in positions : gone[j] = active[i]
      /\ \A i \in positions : \E j \in DOMAIN gone : gone[j] = active[i]
  <2>1. positions \in SUBSET (DOMAIN active)
    OBVIOUS
  <2> HIDE DEF positions, gone
  <2> QED BY <1>1, <2>1, PickedIsList
<1>3. n \in Closed(active) <=> \E j \in DOMAIN gone : gone[j].name = n
  BY DEF Closed, Names
<1> HIDE DEF gone
<1> QED BY <1>2, <1>3

LEMMA NewNames ==
  ASSUME NEW rules, IsList(rules), NEW n
  PROVE  n \in New(rules) <=>
           n # <<>> /\ \E i \in DOMAIN rules : ~rules[i].active /\ rules[i].name = n
<1> DEFINE new == NotActive(rules)
           positions == {i \in DOMAIN rules : ~rules[i].active}
<1>1. new = Picked(rules, positions)
  BY DEF NotActive
<1>2. /\ \A j \in DOMAIN new : \E i \in positions : new[j] = rules[i]
      /\ \A i \in positions : \E j \in DOMAIN new : new[j] = rules[i]
  <2>1. positions \in SUBSET (DOMAIN rules)
    OBVIOUS
  <2> HIDE DEF positions, new
  <2> QED BY <1>1, <2>1, PickedIsList
<1>3. n \in New(rules) <=> n # <<>> /\ \E j \in DOMAIN new : new[j].name = n
  BY DEF New, Names
<1> HIDE DEF new
<1> QED BY <1>2, <1>3

(* Active rules out of the cache, marked, and loaded rules, marked         *)
LEMMA MarkedActive ==
  ASSUME NEW loaded, NEW active, BareList(active),
         \A i \in DOMAIN active : ~active[i].relevant
  PROVE  LET marked == SelectRelevant(loaded, active)
         IN  /\ Names(marked) = Names(active)
             /\ Closed(marked) = Names(active) \ Names(loaded)
<1> DEFINE marked == SelectRelevant(loaded, active)
<1>1. marked = [i \in DOMAIN active |->
                  IF active[i].name \in Names(loaded)
                  THEN [active[i] EXCEPT !.relevant = TRUE] ELSE active[i]]
  BY DEF SelectRelevant
<1>2. BareList(marked)
  BY SelectedRelevant
<1> HIDE DEF marked
<1>3. IsList(marked) /\ DOMAIN marked = DOMAIN active
  BY <1>1, <1>2 DEF BareList
<1>4. ASSUME NEW i \in DOMAIN active
      PROVE  /\ marked[i].name = active[i].name
             /\ marked[i].relevant <=> active[i].name \in Names(loaded)
  <2>1. RuleShape(active[i]) /\ ~active[i].relevant
    BY DEF BareList, Bare
  <2> QED BY <1>1, <2>1 DEF RuleShape
<1>5. Names(marked) = Names(active)
  BY <1>3, <1>4 DEF Names
<1>6. \A n : n \in Closed(marked) <=> n \in Names(active) /\ n \notin Names(loaded)
  <2>1. TAKE n
  <2>2. n \in Closed(marked) <=>
          \E i \in DOMAIN marked : ~marked[i].relevant /\ marked[i].name = n
    BY <1>3, ClosedNames
  <2>3. n \in Names(active) <=> \E i \in DOMAIN active : active[i].name = n
    BY DEF Names
  <2> QED BY <1>3, <1>4, <2>2, <2>3
<1> QED BY <1>5, <1>6 DEF marked

LEMMA MarkedLoaded ==
  ASSUME NEW loaded, RuleList(loaded), NEW active,
         \A i \in DOMAIN loaded : ~loaded[i].active
  PROVE  LET marked == SelectActive(loaded, active)
         IN  /\ Names(marked) = Names(loaded)
             /\ New(marked) = (Names(loaded) \ Names(active)) \ {<<>>}
<1> DEFINE marked == SelectActive(loaded, active)
<1>1. marked = [i \in DOMAIN loaded |->
                  IF loaded[i].name \in Names(active)
                  THEN [loaded[i] EXCEPT !.active = TRUE] ELSE loaded[i]]
  BY DEF SelectActive
<1>2. IsList(marked)
  BY SelectedActive DEF RuleList
<1> HIDE DEF marked
<1>3. DOMAIN marked = DOMAIN loaded
  BY <1>1
<1>4. ASSUME NEW i \in DOMAIN loaded
      PROVE  /\ marked[i].name = loaded[i].name
             /\ marked[i].active <=> loaded[i].name \in Names(active)
  <2>1. RuleShape(loaded[i]) /\ ~loaded[i].active
    BY DEF RuleList, Accounted
  <2> QED BY <1>1, <2>1 DEF RuleShape
<1>5. Names(marked) = Names(loaded)
  BY <1>3, <1>4 DEF Names
<1>6. \A n : n \in New(marked) <=>
               n # <<>> /\ n \in Names(loaded) /\ n \notin Names(active)
  <2>1. TAKE n
  <2>2. n \in New(marked) <=>
          n # <<>> /\ \E i \in DOMAIN marked : ~marked[i].active /\ marked[i].name = n
    BY <1>2, NewNames
  <2>3. n \in Names(loaded) <=> \E i \in DOMAIN loaded : loaded[i].name = n
    BY DEF Names
  <2> QED BY <1>3, <1>4, <2>2, <2>3
<1> QED BY <1>5, <1>6 DEF marked

LEMMA LoadedOnes ==
  ASSUME NEW names, IsList(names), NEW dialect, dialect # "SCE"
  PROVE  LET loaded == LoadRuleInfo(Known, names, dialect, <<>>)
         IN  /\ RuleList(loaded)
             /\ \A i \in DOMAIN loaded : ~loaded[i].active /\ loaded[i].relevant
<1> DEFINE known == KnownRules(Known, names)
           loaded == LoadRuleInfo(Known, names, dialect, <<>>)
<1>1. /\ RuleList(known)
      /\ \A i \in DOMAIN known : ~known[i].active /\ known[i].relevant
  BY KnownList
<1>2. loaded = IF names = <<>> THEN <<>> ELSE <<>> \o known
  BY DEF LoadRuleInfo
<1> HIDE DEF known, loaded
<1>3. RuleList(<<>>) /\ DOMAIN <<>> = {}
  BY ShortLists DEF RuleList
<1>4. RuleList(<<>> \o known)
  BY <1>1, <1>3, JoinedRules
<1>5. \A i \in DOMAIN (<<>> \o known) :
        ~(<<>> \o known)[i].active /\ (<<>> \o known)[i].relevant
  BY <1>1, <1>3, JoinedList DEF RuleList
<1> QED BY <1>2, <1>3, <1>4, <1>5 DEF loaded
-----------------------------------------------------------------------------
LEMMA ComparedNext ==
  ASSUME NEW s, NEW active, NEW rules, ComparedAt(s, active, rules)',
         client'.at = s, client'.active = active, client'.rules = rules
  PROVE  ComparedInv'
<1>1. Ready(s)' <=> Ready(client.at)'
  BY DEF Ready, Handles, At
<1>2. ComparedAt(client.at, client.active, client.rules)'
  BY <1>1 DEF ComparedAt, Separates
<1> QED BY <1>2 DEF ComparedInv

(* A step that leaves the refresh thread alone, brings no handler to its   *)
(* answer and changes no rules that count                                  *)
LEMMA StillCompared ==
  ASSUME TypeInv, ComparedInv, client' = client, crossed \subseteq crossed',
         \A s \in Session :
           (client.pc = "send" /\ client.at = s /\ s \notin crossed' /\ Ready(s)')
             => Ready(s) /\ rulesOf'[s] = rulesOf[s]
  PROVE  ComparedInv'
<1>1. PICK s, a, b : s = client.at /\ a = client.active /\ b = client.rules
  OBVIOUS
<1>2. CASE client.pc = "send" /\ s \in Core \cup Procera
  <2>1. s \in Session /\ ComparedAt(s, a, b)
    BY <1>1, <1>2 DEF TypeInv, ClientType, ComparedInv
  <2>2. ComparedAt(s, a, b)'
    BY <1>1, <1>2, <2>1 DEF ComparedAt
  <2> QED BY <1>1, <2>2, ComparedNext
<1>3. CASE ~(client.pc = "send" /\ s \in Core \cup Procera)
  BY <1>1, <1>3 DEF ComparedInv, Core, Procera
<1> QED BY <1>2, <1>3
-----------------------------------------------------------------------------
(* No gateway gets further and no handler comes to its answer.             *)
LEMMA QuietCompared ==
  ASSUME TypeInv, ComparedInv, client' = client, crossed \subseteq crossed',
         gw' = gw,
         \A u \in Thread : hand'[u].pc = "send" => hand'[u] = hand[u],
         \A s \in Session :
           client.at = s /\ s \notin crossed' /\ gw[s] \in {"opening", "open"}
             => rulesOf'[s] = rulesOf[s]
  PROVE  ComparedInv'
<1>1. ASSUME NEW s \in Session, client.at = s, s \notin crossed', Ready(s)'
      PROVE  Ready(s) /\ rulesOf'[s] = rulesOf[s]
  <2>1. Ready(s)
    BY <1>1 DEF Ready, Handles, At
  <2> QED BY <1>1, <2>1 DEF Ready
<1> QED BY <1>1, StillCompared

LEMMA WayCompared ==
  ASSUME IInv, TypeInv, DataInv, ComparedInv, NEW t \in Thread,
         \/ Find(t) \/ Look(t) \/ Adopt(t) \/ Get(t) \/ Insert(t) \/ Linked(t)
         \/ CacheUpdate(t) \/ Active(t) \/ Load(t) \/ Store(t) \/ End(t)
         \/ \E served \in BOOLEAN : ListProcera(t, served)
         \/ \E c \in Session, served \in BOOLEAN : EndChild(t, c, served)
         \/ \E p \in Session, served \in BOOLEAN : ChangeUli(t, p, served)
  PROVE  ComparedInv'
<1>1. hand'[t].pc # "send" /\ \A u \in Thread \ {t} : hand'[u] = hand[u]
  BY Going, GoingToLoad DEF GoesOn
<1>2. CASE \/ Find(t) \/ Look(t) \/ Adopt(t) \/ Get(t) \/ Insert(t) \/ Linked(t)
           \/ CacheUpdate(t) \/ Active(t) \/ Load(t)
           \/ \E served \in BOOLEAN : ListProcera(t, served)
           \/ \E c \in Session, served \in BOOLEAN : EndChild(t, c, served)
  <2>1. UNCHANGED <<crossed, gw, rulesOf, client>>
    BY <1>2 DEF Find, Look, Adopt, Get, Insert, Linked, CacheUpdate, Active, Load,
           ListProcera, EndChild, Unmoved, gateways, ruleVars
  <2> QED BY <1>1, <2>1, QuietCompared
<1>3. CASE Store(t)
  <2>1. PICK e, closed :
          /\ e = At(t) /\ rulesOf' = Exchanged(e, closed, {})
          /\ crossed' = crossed \cup (IF client.at = e /\ closed # {} THEN {e} ELSE {})
    BY <1>3 DEF Store
  <2>2. UNCHANGED <<gw, client>>
    BY <1>3 DEF Store, gateways
  <2>3. ASSUME NEW s \in Session, client.at = s, s \notin crossed'
        PROVE  rulesOf'[s] = rulesOf[s]
    <3>1. s # e \/ closed = {}
      BY <2>1, <2>3
    <3> QED BY <2>1, <3>1 DEF Exchanged, DataInv, FiniteStores
  <2> QED BY <1>1, <2>1, <2>2, <2>3, QuietCompared
<1>4. CASE End(t)
  <2>1. PICK e : e = At(t)
    OBVIOUS
  <2>2. /\ UNCHANGED <<gw, client, crossed>> /\ gw[e] = "closed"
        /\ rulesOf' = Forgotten(e)
    BY <1>4, <2>1 DEF End, RemoveSession, gateways, IInv, EndInv
  <2>3. ASSUME NEW s \in Session, gw[s] \in {"opening", "open"}
        PROVE  rulesOf'[s] = rulesOf[s]
    BY <2>2, <2>3 DEF Forgotten
  <2> QED BY <1>1, <2>2, <2>3, QuietCompared
<1>5. ASSUME NEW p \in Session, NEW served \in BOOLEAN, ChangeUli(t, p, served)
      PROVE  ComparedInv'
  <2>1. client' = client
    BY <1>5 DEF ChangeUli
  <2>2. CASE served
    <3>1. PICK old, new, avps : OperateRules(p, old, new) /\ ReAuth(p, avps, t)
      BY <1>5, <2>2 DEF ChangeUli
    <3>2. /\ gw' = gw /\ crossed \subseteq crossed'
          /\ client.at = p => p \in crossed'
          /\ rulesOf' = Exchanged(p, Closed(old), New(new))
      BY <3>1 DEF ReAuth, OperateRules
    <3>3. ASSUME NEW s \in Session, client.at = s, s \notin crossed'
          PROVE  rulesOf'[s] = rulesOf[s]
      BY <3>2, <3>3 DEF Exchanged
    <3> QED BY <1>1, <2>1, <3>2, <3>3, QuietCompared
  <2>3. CASE ~served
    <3>1. UNCHANGED <<gw, rulesOf, crossed>>
      BY <1>5, <2>3 DEF ChangeUli, gateways
    <3> QED BY <1>1, <2>1, <3>1, QuietCompared
  <2> QED BY <2>2, <2>3
<1> QED BY <1>2, <1>3, <1>4, <1>5

LEMMA RulesCompared ==
  ASSUME TypeInv, DataInv, TurnInv, ComparedInv, NEW t \in Thread, Rules(t)
  PROVE  ComparedInv'
<1>0. PICK e : e = At(t)
  OBVIOUS
<1> DEFINE h == hand[t]
           operates == Operates(h) /\ Type[h.msg] # "TERMINATION"
<1>1. /\ UNCHANGED <<gw, client>> /\ crossed \subseteq crossed'
      /\ operates /\ client.at = e => e \in crossed'
      /\ operates => rulesOf' = Exchanged(e, Closed(h.active), New(h.rules))
      /\ ~operates => rulesOf' = rulesOf
  BY <1>0 DEF Rules, OperateRules, gateways
<1>2. /\ \A u \in Thread \ {t} : hand'[u] = hand[u]
      /\ hand'[t].msg = hand[t].msg /\ h.pc = "rules" /\ e \in Session
  BY <1>0, Going, HandTypes DEF GoesOn, Rules
<1>3. gw[e] = "opening" => operates
  <2>1. ASSUME gw[e] = "opening" PROVE operates
    <3>1. Type[h.msg] = "INITIAL"
      BY <1>0, <1>2, <2>1, Alone DEF Handles
    <3>2. "OPERATE_RULE" \in h.actions
      BY <1>2, <3>1 DEF DataInv, HandData, Initiates
    <3> QED BY <3>1, <3>2 DEF Operates
  <2> QED BY <2>1
<1> HIDE DEF operates
<1>4. ASSUME NEW s \in Session, client.at = s, s \notin crossed', Ready(s)'
      PROVE  Ready(s) /\ rulesOf'[s] = rulesOf[s]
  <2>1. s = e => ~operates
    BY <1>1, <1>4
  <2>2. rulesOf'[s] = rulesOf[s]
    <3>1. CASE operates
      <4>1. s # e
        BY <2>1, <3>1
      <4> QED BY <1>1, <3>1, <4>1 DEF Exchanged, DataInv, FiniteStores
    <3> QED BY <1>1, <3>1
  <2>3. CASE gw[s] = "open"
    BY <2>2, <2>3 DEF Ready
  <2>4. CASE gw[s] # "open"
    <3>1. gw[s] = "opening"
      BY <1>1, <1>4, <2>4 DEF Ready
    <3>2. PICK u \in Thread : Handles(u, s)' /\ hand'[u].pc = "send"
      BY <1>1, <1>4, <2>4 DEF Ready
    <3>3. u # t
      BY <1>0, <1>2, <1>3, <2>1, <3>1, <3>2 DEF Handles, At
    <3>4. Handles(u, s) /\ hand[u].pc = "send"
      BY <1>2, <3>2, <3>3 DEF Handles, At
    <3> QED BY <2>2, <3>1, <3>4 DEF Ready
  <2> QED BY <2>3, <2>4
<1> QED BY <1>1, <1>4, StillCompared

LEMMA SendCompared ==
  ASSUME TypeInv, ComparedInv, NEW t \in Thread, Send(t)
  PROVE  ComparedInv'
<1>0. PICK e : e = At(t)
  OBVIOUS
<1>1. /\ hand[t].pc = "send" /\ e \in Session /\ DOMAIN hand = Thread
      /\ DOMAIN gw = Session
  BY <1>0, HandTypes DEF Send, TypeInv, HandsType, GatewayType
<1>2. /\ hand'[t].pc = "idle" /\ \A u \in Thread \ {t} : hand'[u] = hand[u]
      /\ UNCHANGED <<rulesOf, client>> /\ crossed \subseteq crossed'
  BY <1>1 DEF Send, Go, Idle, ruleVars
<1>3. /\ \A s \in Session \ {e} : gw'[s] = gw[s]
      /\ gw[e] # "opening" => gw'[e] = gw[e]
      /\ gw'[e] = "opening" => gw[e] = "opening"
  BY <1>0, <1>1 DEF Send
<1>4. ASSUME NEW s \in Session, Ready(s)' PROVE Ready(s)
  <2>1. CASE gw[s] = "opening" /\ s = e
    BY <1>0, <1>1, <2>1 DEF Ready, Handles
  <2>2. CASE ~(gw[s] = "opening" /\ s = e)
    <3>1. gw'[s] = gw[s]
      BY <1>3, <2>2
    <3>2. \A u \in Thread : Handles(u, s)' /\ hand'[u].pc = "send"
            => Handles(u, s) /\ hand[u].pc = "send"
      BY <1>2 DEF Handles, At
    <3> QED BY <1>4, <3>1, <3>2 DEF Ready
  <2> QED BY <2>1, <2>2
<1> QED BY <1>2, <1>4, StillCompared

LEMMA ReceiveCompared ==
  ASSUME TypeInv, TurnInv, ComparedInv, NEW t \in Thread,
         NEW m \in DOMAIN Message, NEW conn \in BOOLEAN, Receive(t, m, conn)
  PROVE  ComparedInv'
<1>0. PICK e : e = SessionOf[m]
  OBVIOUS
<1>1. /\ hand[t].pc = "idle" /\ e \in Session /\ DOMAIN hand = Thread
      /\ DOMAIN gw = Session /\ CanSend(e, Type[m])
      /\ Type[m] \in {"INITIAL", "UPDATE", "TERMINATION"}
  BY <1>0, MessageAssumption DEF Receive, TypeInv, HandsType, GatewayType
<1>2. /\ hand'[t].pc = FirstStep(DialectOf[e], Type[m])
      /\ \A u \in Thread \ {t} : hand'[u] = hand[u]
      /\ UNCHANGED <<rulesOf, crossed, client>>
  BY <1>0, <1>1 DEF Receive, Go, Idle, ruleVars
<1>3. hand'[t].pc # "send"
  BY <1>2 DEF FirstStep
<1>4. /\ \A s \in Session \ {e} : gw'[s] = gw[s]
      /\ gw'[e] = (IF Type[m] = "INITIAL" THEN "opening"
                   ELSE IF Type[m] = "UPDATE" THEN gw[e] ELSE "closed")
  BY <1>0, <1>1 DEF Receive
<1>5. ASSUME NEW s \in Session, Ready(s)' PROVE Ready(s)
  <2>1. \A u \in Thread : Handles(u, s)' /\ hand'[u].pc = "send"
          => Handles(u, s) /\ hand[u].pc = "send"
    BY <1>2, <1>3 DEF Handles, At
  <2>2. CASE s = e /\ Type[m] = "INITIAL"
    <3>1. gw[s] = "new" /\ ~Handled(s) /\ gw'[s] = "opening"
      BY <1>1, <1>4, <2>2, Alone DEF CanSend
    <3>2. FALSE
      BY <1>5, <2>1, <3>1 DEF Ready, Handled
    <3> QED BY <3>2
  <2>3. CASE ~(s = e /\ Type[m] = "INITIAL")
    <3>1. gw'[s] = gw[s] \/ gw'[s] = "closed"
      BY <1>4, <2>3
    <3> QED BY <1>5, <2>1, <3>1 DEF Ready
  <2> QED BY <2>2, <2>3
<1> QED BY <1>2, <1>5, StillCompared
-----------------------------------------------------------------------------
LEMMA RaaCompared ==
  ASSUME TypeInv, DataInv, ComparedInv, NEW s \in Session, Raa(s)
  PROVE  ComparedInv'
<1>1. /\ UNCHANGED <<gw, hand, client>> /\ crossed \subseteq crossed'
      /\ rulesOf' = Forgotten(s)
      /\ gw[s] \in {"opening", "open"} => s \in crossed'
  BY DEF Raa, RemoveSession
<1>2. ASSUME NEW r \in Session, r \notin crossed', gw[r] \in {"opening", "open"}
      PROVE  rulesOf'[r] = rulesOf[r]
  BY <1>1, <1>2 DEF Forgotten, DataInv, FiniteStores
<1> QED BY <1>1, <1>2, QuietCompared

LEMMA VisitCompared ==
  ASSUME TypeInv, DataInv, NEW s \in Session, Visit(s)
  PROVE  ComparedInv'
<1>1. CASE client' = Past(s)
  BY <1>1, ClientIdles DEF ComparedInv
<1>2. CASE client' # Past(s)
  <2>1. /\ cache[s] # {}
        /\ \E names \in Reads(The(cache[s]).owner) : Compare(s, names)
    BY <1>2 DEF Visit, Skip, Release
  <2>2. The(cache[s]).owner \in BOOLEAN
    BY <2>1 DEF TypeInv, RegistryType, DataType, The
  <2>3. PICK names \in Reads(The(cache[s]).owner) : Compare(s, names)
    BY <2>1
  <2>4. IsList(names)
    BY <2>2, ReadLists
  <2> DEFINE dialect == DialectOf[s]
             loaded == LoadRuleInfo(Known, names, dialect, <<>>)
             cached == ActiveRules(s)
             active == SelectRelevant(loaded, cached)
             marked == SelectActive(loaded, cached)
  <2>5. \E keys : client' = [client EXCEPT !.pc = "send", !.at = s, !.keys = keys,
                               !.rules = marked, !.active = active]
    BY <1>2, <2>3 DEF Compare, Skip, Release, Marked
  <2>6. /\ BareList(cached) /\ Names(cached) = rulesOf[s]
        /\ \A i \in DOMAIN cached : ~cached[i].relevant
    BY ActiveList DEF DataInv, FiniteStores
  <2>7. dialect # "SCE" => RuleList(loaded) /\ \A i \in DOMAIN loaded : ~loaded[i].active
    BY <2>4, LoadedOnes
  <2> HIDE DEF loaded, cached
  <2>8. /\ Names(active) = rulesOf[s]
        /\ Closed(active) = rulesOf[s] \ Names(loaded)
    BY <2>6, MarkedActive
  <2>9. dialect # "SCE" => /\ Names(marked) = Names(loaded)
                           /\ New(marked) = (Names(loaded) \ rulesOf[s]) \ {<<>>}
    BY <2>6, <2>7, MarkedLoaded
  <2> HIDE DEF active, marked
  <2>10. client'.at = s /\ client'.rules = marked /\ client'.active = active
    BY <2>5 DEF TypeInv, ClientType, ClientFields
  <2>11. CASE s \in Core \cup Procera
    <3>1. Separates(active, marked)
      BY <2>8, <2>9, <2>11, GatewayDialects DEF Separates
    <3>2. rulesOf' = rulesOf
      BY DEF Visit, ruleVars
    <3>3. PICK a, b : a = active /\ b = marked
      OBVIOUS
    <3>4. Names(a) = rulesOf[s] /\ Separates(a, b)
      BY <2>8, <3>1, <3>3
    <3>5. ComparedAt(s, a, b)'
      BY <3>2, <3>4 DEF ComparedAt
    <3> QED BY <2>10, <3>3, <3>5, ComparedNext
  <2>12. CASE s \notin Core \cup Procera
    BY <2>10, <2>12 DEF ComparedInv, Core, Procera
  <2> QED BY <2>11, <2>12
<1> QED BY <1>1, <1>2

LEMMA TakeCompared ==
  ASSUME TypeInv, ComparedInv,
         \/ \E s \in Session : Apply(s) \/ TakeAbort(s)
         \/ TakeRefresh
         \/ \E p \in DOMAIN Profiles : ChangeProfile(p)
         \/ \E t \in Thread : NullConnection(t)
         \/ UNCHANGED vars
  PROVE  ComparedInv'
<1>1. UNCHANGED <<gw, hand, rulesOf, crossed>>
  BY DEF Apply, TakeAbort, TakeRefresh, ChangeProfile, NullConnection, vars,
         gateways, ruleVars
<1>2. client' = client \/ client'.pc \in {"idle", "next"}
  <2>1. ASSUME NEW s \in Session, TakeAbort(s) PROVE client'.pc = "next"
    BY <2>1 DEF TakeAbort, Resting
  <2>2. ASSUME TakeRefresh PROVE client'.pc \in {"idle", "next"}
    BY <2>2 DEF TakeRefresh, Resting
  <2> QED BY <2>1, <2>2 DEF Apply, ChangeProfile, NullConnection, vars
<1>3. CASE client' = client
  BY <1>1, <1>3, QuietCompared
<1>4. CASE client'.pc \in {"idle", "next"}
  BY <1>4 DEF ComparedInv
<1> QED BY <1>2, <1>3, <1>4

LEMMA ComparedStep == RulesInv /\ ComparedInv /\ [Next]_vars => ComparedInv'
<1> SUFFICES ASSUME RulesInv, ComparedInv, [Next]_vars PROVE ComparedInv'
  OBVIOUS
<1> USE DEF RulesInv
<1>1. ASSUME NEW t \in Thread, Handle(t) PROVE ComparedInv'
  BY <1>1, WayCompared, RulesCompared, SendCompared, ReceiveCompared,
     TakeCompared DEF Handle
<1>2. ASSUME NEW s \in Session, Apply(s) \/ Raa(s) \/ TakeAbort(s) \/ Visit(s)
      PROVE  ComparedInv'
  BY <1>2, TakeCompared, RaaCompared, VisitCompared
<1>3. ASSUME Refresh PROVE ComparedInv'
  BY <1>3, ClientIdles DEF Refresh, ComparedInv
<1> QED BY <1>1, <1>2, <1>3, TakeCompared DEF Next

(* From the comparison to the RAR the refresh thread knows which rules go  *)
(* and come, and, unless another thread crosses it, what the cache has.    *)
THEOREM ComparedInvariance == Spec => []ComparedInv
<1>1. Init => ComparedInv
  BY DEF Init, ComparedInv, Resting
<1>2. RulesInv /\ ComparedInv /\ [Next]_vars => ComparedInv'
  BY ComparedStep
<1> QED BY <1>1, <1>2, RulesInvariance, PTL DEF Spec

(* Only the RAR ends what the refresh thread compared.                     *)
LEMMA OnlyRefreshes ==
  ASSUME TypeInv, Next, client.pc = "send", client'.pc # "send"
  PROVE  Refresh
<1>1. ASSUME NEW t \in Thread, Handle(t) PROVE client' = client
  BY <1>1 DEF Handle, Find, Look, Adopt, Insert, Linked, End, Get, Store, Active,
         Load, EndChild, CacheUpdate, NullConnection, ListProcera, ChangeUli,
         Rules, Send, Receive, Unmoved
<1>2. ASSUME NEW s \in Session, Apply(s) \/ Raa(s) \/ TakeAbort(s) \/ Visit(s)
      PROVE  FALSE
  BY <1>2 DEF Apply, Raa, TakeAbort, Visit
<1> QED BY <1>1, <1>2 DEF Next, TakeRefresh, ChangeProfile

(* A refresh leaves the gateway with the rules loaded for it and no other: *)
(* what is closed and opened makes the loaded rules out of those the cache *)
(* had when they were compared, the cache still has these, and gateway and *)
(* cache agree afterwards.                                                 *)
THEOREM RefreshLeavesTheLoaded == Spec => RefreshConverges
<1> DEFINE Converges ==
      LET s == client.at
      IN  (/\ client.pc = "send" /\ client'.pc # "send"
           /\ s \in Core \cup Procera
           /\ gw[s] = "open" /\ s \notin crossed' /\ ~Handled(s))
            => Plain(held'[s]) \ Unaccounted
                 = Names(client.rules) \ Unaccounted
<1>1. RulesInv /\ RulesInv' /\ ComparedInv /\ [Next]_vars => [Converges]_vars
  <2> SUFFICES ASSUME RulesInv, RulesInv', ComparedInv, Next,
                      NEW s, s = client.at, s \in Core \cup Procera,
                      client.pc = "send", client'.pc # "send",
                      gw[s] = "open", s \notin crossed', ~Handled(s)
               PROVE  Plain(held'[s]) \ Unaccounted
                        = Names(client.rules) \ Unaccounted
    OBVIOUS
  <2>1. PICK a, b : a = client.active /\ b = client.rules
    OBVIOUS
  <2>2. Refresh /\ s \in Session
    BY OnlyRefreshes, GatewayDialects DEF RulesInv
  <2>3. /\ UNCHANGED <<gw, hand>> /\ crossed \subseteq crossed'
        /\ rulesOf' = Exchanged(s, Closed(a), New(b))
    BY <2>1, <2>2 DEF Refresh, ReAuth, OperateRules
  <2>4. /\ Closed(a) = Names(a) \ Names(b)
        /\ New(b) = (Names(b) \ Names(a)) \ {<<>>}
        /\ rulesOf[s] = Names(a)
    BY <2>1, <2>3 DEF ComparedInv, ComparedAt, Separates, Ready
  <2>5. rulesOf'[s] = (rulesOf[s] \ Closed(a)) \cup New(b)
    BY <2>2, <2>3 DEF Exchanged, RulesInv, DataInv, FiniteStores
  <2>6. \A n : n # <<>> => (n \in rulesOf'[s] <=> n \in Names(b))
    BY <2>4, <2>5
  <2>7. ~Handled(s)'
    BY <2>3 DEF Handled, Handles, At
  <2>8. AgreesAt(s)'
    BY DEF RulesInv, AgreeInv, Core, Procera
  <2>9. Matches(held'[s], rulesOf'[s])
    BY <2>3, <2>7, <2>8 DEF AgreesAt
  <2>10. \A n : n \notin Unaccounted =>
           (<<"Charging-Rule-Name", n>> \in held'[s] <=> n \in Names(b))
    BY <2>6, <2>9 DEF Matches, Unaccounted
  <2> QED BY <2>1, <2>10, PlainRules
<1> QED BY <1>1, RulesInvariance, ComparedInvariance, PTL
     DEF Spec, RefreshConverges
-----------------------------------------------------------------------------
(* The end of a core session reaches its Procera sessions.  One that has   *)
(* to be told stays cached, and with it goes a handler that is about to    *)
(* list it, the refresh queue that names it, or the thread that takes it   *)
(* from there.  What keeps the promise is spread over all of the state, so *)
(* each lemma says what any step may do to one part of it.                 *)
ListsNext(t, c) ==
  /\ hand[t].pc = "ending" /\ c \in hand[t].todo
  /\ hand[t].todo \subseteq Procera
  /\ hand[t].dialect \in {{}, {"Procera"}}

Named(c) == c \in aborts \/ Visits(c)

(* A handler asks for the end of core sessions only, looks for a core      *)
(* session for the others only, and has no dialect of a linked session     *)
(* before it looks the first one up.                                       *)
Fresh(h) ==
  /\ h.ask => SessionOf[h.msg] \in Core
  /\ h.pc = "find" \/ h.core # NoSession => SessionOf[h.msg] \notin Core
  /\ h.pc = "linked" => h.dialect = {}

FreshInv == \A t \in Thread : Fresh(hand[t])

ReachInv ==
  /\ FreshInv
  /\ \A c \in owed \cap Procera :
       \/ gw[c] = "closed"
       \/ c \in told
       \/ /\ cache[c] # {}
          /\ \/ Named(c)
             \/ StaysLive(c) /\ \E t \in Thread : ListsNext(t, c)

(* Nobody owes it anything once its gateway or the answer to a RAR has     *)
(* said that it is over.                                                   *)
Settled(c) == gw[c] = "closed" \/ c \notin owed'

LEMMA OverAndTold ==
  ASSUME RulesInv, [Next]_vars
  PROVE  /\ \A c \in Session : gw[c] = "closed" => gw'[c] = "closed"
         /\ told \subseteq told'
<1>1. ASSUME NEW t \in Thread, Handle(t)
      PROVE  /\ \A c \in Session : gw[c] = "closed" => gw'[c] = "closed"
             /\ told \subseteq told'
  <2>1. ASSUME NEW m \in DOMAIN Message, NEW conn \in BOOLEAN, Receive(t, m, conn)
        PROVE  /\ \A c \in Session : gw[c] = "closed" => gw'[c] = "closed"
               /\ told \subseteq told'
    BY <2>1 DEF Receive, CanSend, RulesInv, IInv, ShapeInv
  <2>2. CASE Send(t)
    BY <2>2 DEF Send, RulesInv, IInv, ShapeInv
  <2>3. ASSUME NEW p \in Session, NEW served \in BOOLEAN, ChangeUli(t, p, served)
        PROVE  UNCHANGED <<gw, told>>
    BY <2>3 DEF ChangeUli, ReAuth, gateways
  <2>4. CASE \/ Find(t) \/ Look(t) \/ Adopt(t) \/ Insert(t) \/ Linked(t) \/ End(t)
             \/ Get(t) \/ Store(t) \/ Active(t) \/ Load(t) \/ CacheUpdate(t)
             \/ NullConnection(t) \/ Rules(t)
             \/ \E served \in BOOLEAN : ListProcera(t, served)
             \/ \E c \in Session, served \in BOOLEAN : EndChild(t, c, served)
    <3>1. UNCHANGED <<gw, told>>
      BY <2>4 DEF Find, Look, Adopt, Insert, Linked, End, Get, Store, Active, Load,
           EndChild, CacheUpdate, NullConnection, ListProcera, Rules, Unmoved, gateways
    <3> QED BY <3>1
  <2> QED BY <1>1, <2>1, <2>2, <2>3, <2>4 DEF Handle
<1>2. ASSUME NEW s \in Session, Apply(s) \/ Raa(s) \/ TakeAbort(s)
      PROVE  UNCHANGED <<gw, told>>
  BY <1>2 DEF Apply, Raa, TakeAbort, gateways
<1>3. ASSUME NEW s \in Session, Visit(s)
      PROVE  gw' = gw /\ told \subseteq told'
  BY <1>3 DEF Visit, Compare, Release, Skip, gateways
<1>4. CASE TakeRefresh \/ Refresh \/ \E p \in DOMAIN Profiles : ChangeProfile(p)
  BY <1>4 DEF TakeRefresh, Refresh, ReAuth, ChangeProfile, gateways
<1>5. CASE UNCHANGED vars
  BY <1>5 DEF vars, gateways
<1> QED BY <1>1, <1>2, <1>3, <1>4, <1>5 DEF Next

(* Only the look-up of the session of an update sets what is asked, and    *)
(* only the search for a core session finds one.                           *)
Keeps(t) ==
  /\ hand'[t].ask = hand[t].ask
  /\ hand'[t].core \in {hand[t].core, NoSession} \/ hand[t].pc = "find"

LEMMA Kept ==
  ASSUME TypeInv, NEW t \in Thread
  PROVE  /\ (\/ Find(t) \/ Look(t) \/ Adopt(t) \/ Insert(t) \/ Linked(t) \/ End(t)
             \/ Store(t) \/ Active(t) \/ Load(t) \/ CacheUpdate(t) \/ Rules(t))
              => Keeps(t)
         /\ \A served \in BOOLEAN : ListProcera(t, served) => Keeps(t)
         /\ \A p \in Session, served \in BOOLEAN :
              ChangeUli(t, p, served) \/ EndChild(t, p, served) => Keeps(t)
<1>0. DOMAIN hand = Thread /\ DOMAIN hand[t] = Fields
  BY DEF TypeInv, HandsType, HandType
<1>1. ASSUME Find(t) \/ Look(t) \/ Adopt(t) PROVE Keeps(t)
  <2>1. ASSUME NoCore(t) PROVE Keeps(t)
    BY <1>0, <2>1 DEF Keeps, NoCore, Go, Fields
  <2>2. ASSUME Find(t), ~NoCore(t) PROVE Keeps(t)
    BY <1>0, <2>2 DEF Keeps, Find, Go, Fields
  <2>3. ASSUME Look(t), ~NoCore(t) PROVE Keeps(t)
    BY <1>0, <2>3 DEF Keeps, Look, Then, Go, Fields
  <2>4. ASSUME Adopt(t) PROVE Keeps(t)
    BY <1>0, <2>4 DEF Keeps, Adopt, Go, Fields
  <2> QED BY <1>1, <2>1, <2>2, <2>3, <2>4
<1>2. ASSUME Insert(t) \/ End(t) \/ CacheUpdate(t) \/ Store(t)
      PROVE  Keeps(t)
  <2>1. \E pc : Then(t, pc)
    BY <1>2 DEF Insert, End, CacheUpdate, Store
  <2> QED BY <1>0, <2>1 DEF Keeps, Then, Go, Fields
<1>3. ASSUME Linked(t) \/ Active(t) PROVE Keeps(t)
  BY <1>0, <1>3 DEF Keeps, Linked, Active, Go, Fields
<1>4. ASSUME Load(t) PROVE Keeps(t)
  <2>1. PICK names, asked : \/ Loaded(t, Gathered(t, names, asked))
                            \/ Loaded(t, Defaults(t))
    BY <1>4 DEF Load
  <2>2. PICK g \in {Gathered(t, names, asked), Defaults(t)} : Loaded(t, g)
    BY <2>1
  <2>3. DOMAIN g = Fields /\ g.core = hand[t].core
    BY GatheredKept
  <2>4. g.ask = hand[t].ask
    <3>1. CASE g = Gathered(t, names, asked)
      BY <1>0, <3>1 DEF Gathered, Fields
    <3>2. CASE g = Defaults(t)
      BY <1>0, <3>2 DEF Defaults, Fields
    <3> QED BY <3>1, <3>2
  <2> QED BY <1>0, <2>2, <2>3, <2>4 DEF Keeps, Loaded, Go, Fields
<1>5. ASSUME Rules(t) PROVE Keeps(t)
  BY <1>0, <1>5 DEF Keeps, Rules, Go, Idle
<1>6. ASSUME NEW served \in BOOLEAN, ListProcera(t, served)
      PROVE  Keeps(t)
  BY <1>0, <1>6 DEF Keeps, ListProcera, Go, Fields
<1>7. ASSUME NEW p \in Session, NEW served \in BOOLEAN,
             ChangeUli(t, p, served) \/ EndChild(t, p, served)
      PROVE  Keeps(t)
  <2>1. ASSUME ChangeUli(t, p, served) PROVE Keeps(t)
    BY <1>0, <2>1 DEF Keeps, ChangeUli, Go, Fields
  <2>2. ASSUME EndChild(t, p, served) PROVE Keeps(t)
    BY <1>0, <2>2 DEF Keeps, EndChild, Go, Fields
  <2> QED BY <1>7, <2>1, <2>2
<1> QED BY <1>1, <1>2, <1>3, <1>4, <1>5, <1>6, <1>7

LEMMA HandsFresh ==
  ASSUME RulesInv, FreshInv, NEW t \in Thread, Handle(t)
  PROVE  FreshInv'
<1>a. TypeInv /\ Fresh(hand[t])
  BY DEF RulesInv, FreshInv
<1>0. DOMAIN hand = Thread /\ DOMAIN hand[t] = Fields
  BY <1>a DEF TypeInv, HandsType, HandType
<1>1. ASSUME NEW pcs, GoesOn(t, pcs), "linked" \notin pcs,
             hand'[t].ask => hand[t].ask \/ At(t) \in Core,
             \/ hand'[t].core \in {hand[t].core, NoSession}
             \/ At(t) \notin Core,
             "find" \notin pcs \/ (hand'[t].pc = "find" => At(t) \notin Core)
      PROVE  FreshInv'
  <2>1. Fresh(hand[t])'
    BY <1>a, <1>1 DEF Fresh, GoesOn, At
  <2> QED BY <1>1, <2>1 DEF GoesOn, FreshInv
<1>k. ASSUME NEW pcs, GoesOn(t, pcs), "linked" \notin pcs, Keeps(t),
             "find" \notin pcs \/ (hand'[t].pc = "find" => At(t) \notin Core)
      PROVE  FreshInv'
  <2>1. hand[t].pc = "find" => At(t) \notin Core
    BY <1>a DEF Fresh, At
  <2> QED BY <1>1, <1>k, <2>1 DEF Keeps
<1>2. CASE \E m \in DOMAIN Message, conn \in BOOLEAN : Receive(t, m, conn)
  <2>1. PICK m \in DOMAIN Message, conn \in BOOLEAN : Receive(t, m, conn)
    BY <1>2
  <2>2. /\ hand'[t].ask = FALSE /\ hand'[t].dialect = {}
        /\ hand'[t].core = NoSession /\ hand'[t].msg = m
        /\ hand'[t].pc = FirstStep(DialectOf[SessionOf[m]], Type[m])
    BY <1>0, <2>1 DEF Receive, Go, Idle
  <2>3. hand'[t].pc = "find" => SessionOf[m] \notin Core
    BY <2>2 DEF FirstStep, Core
  <2>4. \A u \in Thread \ {t} : hand'[u] = hand[u]
    BY <1>0, <2>1 DEF Receive, Go
  <2> QED BY <2>2, <2>3, <2>4 DEF FreshInv, Fresh
<1>3. CASE Send(t)
  <2>1. hand' = [hand EXCEPT ![t] = Idle]
    BY <1>3 DEF Send, Go
  <2>2. Fresh(Idle)
    BY DEF Fresh, Idle
  <2> QED BY <1>0, <2>1, <2>2 DEF FreshInv
<1>4. CASE NullConnection(t)
  BY <1>4 DEF NullConnection, FreshInv
<1>5. CASE Get(t)
  <2>1. /\ hand'[t].ask => At(t) \in Core
        /\ hand'[t].core = hand[t].core
        /\ hand'[t].pc = "find" => At(t) \notin Core
    BY <1>0, <1>5 DEF Get, Go, Fields
  <2>2. GoesOn(t, {"store", "find", "load"})
    BY <1>a, <1>5, Going
  <2> QED BY <1>1, <2>1, <2>2
<1>6. CASE \/ Find(t) \/ Look(t) \/ Adopt(t) \/ Insert(t) \/ Linked(t) \/ End(t)
           \/ CacheUpdate(t) \/ Rules(t)
  <2>1. Keeps(t)
    BY <1>a, <1>6, Kept
  <2>2. GoesOn(t, PC \ {"linked", "find"})
    BY <1>a, <1>6, Going DEF GoesOn, PC
  <2> QED BY <1>k, <2>1, <2>2
<1>7. CASE Store(t) \/ Load(t)
  <2>1. Keeps(t)
    BY <1>a, <1>7, Kept
  <2>2. GoesOn(t, PC \ {"linked", "find"})
    BY <1>a, <1>7, GoingToLoad DEF GoesOn, PC
  <2> QED BY <1>k, <2>1, <2>2
<1>8. CASE \/ \E served \in BOOLEAN : ListProcera(t, served)
           \/ \E p \in Session, served \in BOOLEAN :
                 ChangeUli(t, p, served) \/ EndChild(t, p, served)
  <2>1. Keeps(t)
    BY <1>a, <1>8, Kept
  <2>2. GoesOn(t, {"rules", "rar"}) \/ GoesOn(t, {"remove", "ending"})
    BY <1>a, <1>8, Going
  <2> QED BY <1>k, <2>1, <2>2
<1>9. CASE Active(t)
  <2>1. Keeps(t)
    BY <1>a, <1>9, Kept
  <2>2. hand'[t].pc = "load"
    BY <1>0, <1>9 DEF Active, Go, Fields
  <2>3. GoesOn(t, {"store", "find", "load"})
    BY <1>a, <1>9, Going
  <2> QED BY <1>k, <2>1, <2>2, <2>3
<1> QED BY <1>2, <1>3, <1>4, <1>5, <1>6, <1>7, <1>8, <1>9 DEF Handle

LEMMA FreshStep ==
  ASSUME RulesInv, FreshInv, [Next]_vars
  PROVE  FreshInv'
<1>1. ASSUME NEW s \in Session, Apply(s) \/ Raa(s) \/ TakeAbort(s) \/ Visit(s)
      PROVE  hand' = hand
  BY <1>1 DEF Apply, Raa, TakeAbort, Visit
<1>2. CASE TakeRefresh \/ Refresh \/ \E p \in DOMAIN Profiles : ChangeProfile(p)
  BY <1>2 DEF TakeRefresh, Refresh, ChangeProfile, FreshInv
<1>3. CASE UNCHANGED vars
  BY <1>3 DEF vars, FreshInv
<1> QED BY <1>1, <1>2, <1>3, HandsFresh DEF Next, FreshInv

(* What is owed: only a handler that begins to end a core session promises *)
(* anything to a session of Procera.                                       *)
LEMMA OnlyLinkedOwes ==
  ASSUME FreshInv, [Next]_vars, NEW c \in Procera, c \in owed', c \notin owed
  PROVE  \E t \in Thread : Linked(t)
<1>1. ASSUME NEW t \in Thread, Handle(t)
      PROVE  Linked(t)
  <2>1. CASE CacheUpdate(t)
    <3>1. At(t) = c /\ hand[t].ask /\ hand[t].pc = "update"
      BY <2>1 DEF CacheUpdate
    <3> QED BY <3>1, Different DEF FreshInv, Fresh, At
  <2>2. CASE \E d \in Session, served \in BOOLEAN : EndChild(t, d, served)
    BY <2>2 DEF EndChild
  <2>3. CASE \/ Find(t) \/ Look(t) \/ Adopt(t) \/ Insert(t) \/ End(t)
             \/ Get(t) \/ Store(t) \/ Active(t) \/ Load(t)
             \/ NullConnection(t) \/ Rules(t) \/ Send(t)
             \/ \E m \in DOMAIN Message, conn \in BOOLEAN : Receive(t, m, conn)
             \/ \E served \in BOOLEAN : ListProcera(t, served)
             \/ \E p \in Session, served \in BOOLEAN : ChangeUli(t, p, served)
    BY <2>3 DEF Find, Look, Adopt, Insert, End, Get, Store, Active, Load, Send,
         Receive, NullConnection, ListProcera, ChangeUli, Rules
  <2> QED BY <1>1, <2>1, <2>2, <2>3 DEF Handle
<1>2. ASSUME NEW s \in Session, Apply(s) \/ Raa(s) \/ TakeAbort(s) \/ Visit(s)
      PROVE  owed' \subseteq owed
  BY <1>2 DEF Apply, Raa, TakeAbort, Visit
<1>3. CASE TakeRefresh \/ Refresh \/ \E p \in DOMAIN Profiles : ChangeProfile(p)
  BY <1>3 DEF TakeRefresh, Refresh, ChangeProfile
<1> QED BY <1>1, <1>2, <1>3 DEF Next, vars

(* Where it stays: a cached session is removed at its own end or by the    *)
(* answer to a RAR, and nothing is owed to it then.                        *)
LEMMA CachedStays ==
  ASSUME RulesInv, [Next]_vars, NEW c \in Session, cache[c] # {}
  PROVE  cache'[c] # {} \/ Settled(c)
<1>0. DOMAIN cache = Session
  BY DEF RulesInv, IInv, ShapeInv
<1>1. ASSUME NEW s, NEW data, NEW p, s \in Session, InsertSession(s, data, p)
      PROVE  cache'[c] # {}
  <2>1. CASE cache[s] = {}
    <3>1. cache' = [cache EXCEPT ![s] = {data}]
      BY <1>1, <2>1 DEF InsertSession
    <3> QED BY <1>0, <3>1
  <2>2. CASE cache[s] # {}
    <3>1. cache'[c] = IF c = s THEN {data}
                      ELSE IF parent[c] = s THEN {Updated(d, data) : d \in cache[c]}
                      ELSE cache[c]
      BY <1>1, <2>2 DEF InsertSession
    <3>2. PICK d : d \in cache[c]
      OBVIOUS
    <3>3. Updated(d, data) \in {Updated(e, data) : e \in cache[c]}
      BY <3>2
    <3> QED BY <3>1, <3>3
  <2> QED BY <2>1, <2>2
<1>2. ASSUME NEW t \in Thread, Handle(t)
      PROVE  cache'[c] # {} \/ Settled(c)
  <2>1. CASE Insert(t) \/ CacheUpdate(t)
    <3>1. hand[t].pc # "idle"
      BY <2>1 DEF Insert, CacheUpdate
    <3>2. At(t) \in Session
      BY <3>1, HandTypes DEF RulesInv
    <3> QED BY <1>1, <2>1, <3>2 DEF Insert, CacheUpdate
  <2>2. CASE End(t)
    <3>1. gw[At(t)] = "closed"
      BY <2>2 DEF End, RulesInv, IInv, EndInv
    <3>2. cache' = [cache EXCEPT ![At(t)] = {}]
      BY <2>2 DEF End, RemoveSession
    <3> QED BY <1>0, <3>1, <3>2 DEF Settled
  <2>3. ASSUME NEW m \in DOMAIN Message, NEW conn \in BOOLEAN, Receive(t, m, conn)
        PROVE  UNCHANGED cache
    BY <2>3 DEF Receive, registry
  <2>4. ASSUME NEW d \in Session, NEW served \in BOOLEAN,
               ChangeUli(t, d, served) \/ EndChild(t, d, served)
        PROVE  UNCHANGED cache
    BY <2>4 DEF ChangeUli, EndChild, registry
  <2>5. CASE \/ Find(t) \/ Look(t) \/ Adopt(t) \/ Linked(t) \/ Get(t) \/ Store(t)
             \/ Active(t) \/ Load(t) \/ NullConnection(t) \/ Rules(t) \/ Send(t)
             \/ \E served \in BOOLEAN : ListProcera(t, served)
    BY <2>5 DEF Find, Look, Adopt, Linked, Get, Store, Active, Load, NullConnection,
         Rules, Send, ListProcera, Unmoved, registry
  <2> QED BY <1>2, <2>1, <2>2, <2>3, <2>4, <2>5 DEF Handle
<1>3. ASSUME NEW s \in Session, Raa(s)
      PROVE  cache'[c] # {} \/ Settled(c)
  <2>1. cache' = [cache EXCEPT ![s] = {}] /\ owed' = owed \ {s}
    BY <1>3 DEF Raa, RemoveSession
  <2> QED BY <1>0, <2>1 DEF Settled
<1>4. ASSUME NEW s \in Session, Apply(s) \/ TakeAbort(s) \/ Visit(s)
      PROVE  UNCHANGED cache
  BY <1>4 DEF Apply, TakeAbort, Visit, registry
<1>5. CASE TakeRefresh \/ Refresh \/ \E p \in DOMAIN Profiles : ChangeProfile(p)
  BY <1>5 DEF TakeRefresh, Refresh, ChangeProfile, registry
<1> QED BY <1>2, <1>3, <1>4, <1>5 DEF Next, vars, registry

(* What waits for the database: one statement of one session more          *)
LEMMA AppendedStatement ==
  ASSUME FiniteStores, NEW s \in Session, NEW q, Enqueue(s, q), NEW c \in Session,
         c # s \/ q.row # "end", UNCHANGED row, StaysLive(c)
  PROVE  StaysLive(c)'
<1>1. CASE UNCHANGED queue
  BY <1>1 DEF StaysLive
<1>2. CASE queue' = [queue EXCEPT ![s] = Append(@, q)]
  <2>1. CASE c # s
    BY <1>2, <2>1 DEF StaysLive, FiniteStores
  <2>2. CASE c = s
    <3> DEFINE list == queue[s]
    <3>1. /\ IsList(list) /\ queue'[c] = Append(list, q)
          /\ \A i \in DOMAIN list : list[i].row # "end"
      BY <1>2, <2>2 DEF FiniteStores, StaysLive
    <3> HIDE DEF list
    <3>2. PICK S : list \in Seq(S) /\ q \in S
      <4>1. PICK T : list \in Seq(T)
        BY <3>1, ListSequence
      <4>2. list \in Seq(T \cup {q})
        BY <4>1
      <4> QED BY <4>2
    <3>3. \A i \in DOMAIN Append(list, q) :
            \/ i \in DOMAIN list /\ Append(list, q)[i] = list[i]
            \/ Append(list, q)[i] = q
      BY <3>2
    <3>4. \A i \in DOMAIN Append(list, q) : Append(list, q)[i].row # "end"
      BY <2>2, <3>1, <3>3
    <3> QED BY <3>1, <3>4 DEF StaysLive
  <2> QED BY <2>1, <2>2
<1> QED BY <1>1, <1>2 DEF Enqueue

LEMMA AppliedStatement ==
  ASSUME RulesInv, NEW s \in Session, Apply(s), NEW c \in Session, StaysLive(c)
  PROVE  StaysLive(c)'
<1>0. FiniteStores /\ DOMAIN row = Session
  BY DEF RulesInv, DataInv, TypeInv, RestType
<1>1. CASE c # s
  <2>1. row'[c] = row[c] /\ queue'[c] = queue[c]
    BY <1>0, <1>1 DEF Apply, FiniteStores
  <2> QED BY <2>1 DEF StaysLive
<1>2. CASE c = s
  <2>1. PICK list : list = queue[s]
    OBVIOUS
  <2>2. /\ IsList(list) /\ list # <<>> /\ queue'[s] = Tail(list)
        /\ row'[s] = IF \/ Head(list).row = "keep"
                        \/ row[s] = "none" /\ Head(list).row # "insert"
                     THEN row[s]
                     ELSE IF Head(list).row = "end" THEN "ended" ELSE "live"
        /\ row[s] = "live" /\ \A i \in DOMAIN list : list[i].row # "end"
    BY <1>0, <1>2, <2>1 DEF Apply, FiniteStores, StaysLive
  <2>3. /\ list \in Seq(Range(list))
        /\ DOMAIN list = 1..Len(list) /\ Len(list) \in Nat
    BY <2>2, ListSequence
  <2>4. /\ 1 \in DOMAIN list /\ Head(list) = list[1]
        /\ \A i \in DOMAIN Tail(list) :
             i + 1 \in DOMAIN list /\ Tail(list)[i] = list[i + 1]
    BY <2>2, <2>3
  <2>5. row'[s] = "live"
    BY <2>2, <2>4
  <2>6. \A i \in DOMAIN Tail(list) : Tail(list)[i].row # "end"
    BY <2>2, <2>4
  <2> QED BY <1>2, <2>2, <2>5, <2>6 DEF StaysLive
<1> QED BY <1>1, <1>2

(* A row that is live, with no end of it waiting, stays so until its       *)
(* session is over.                                                        *)
LEMMA LiveStays ==
  ASSUME RulesInv, [Next]_vars, NEW c \in Session, StaysLive(c)
  PROVE  StaysLive(c)' \/ Settled(c)
<1>0. FiniteStores
  BY DEF RulesInv, DataInv
<1>1. ASSUME UNCHANGED <<row, queue>> PROVE StaysLive(c)'
  BY <1>1 DEF StaysLive
<1>2. ASSUME NEW s \in Session, NEW active, NEW rules,
             OperateRules(s, active, rules), UNCHANGED row
      PROVE  StaysLive(c)'
  <2> DEFINE q == [NoStatement EXCEPT
                    !.closed = {n \in Closed(active) : IsPlace(n)},
                    !.opened = {n \in New(rules) : IsPlace(n)}]
  <2>1. Enqueue(s, q)
    BY <1>2 DEF OperateRules
  <2>2. q.row = "keep"
    BY DEF NoStatement
  <2> HIDE DEF q
  <2> QED BY <1>0, <1>2, <2>1, <2>2, AppendedStatement
<1>3. ASSUME NEW t \in Thread, Handle(t)
      PROVE  StaysLive(c)' \/ Settled(c)
  <2>1. CASE Store(t)
    <3>1. /\ hand[t].pc # "idle" /\ UNCHANGED row
          /\ \E closed : Enqueue(At(t), Statement(Type[hand[t].msg], closed))
      BY <2>1 DEF Store
    <3>2. PICK closed : Enqueue(At(t), Statement(Type[hand[t].msg], closed))
      BY <3>1
    <3>3. /\ At(t) \in Session
          /\ Type[hand[t].msg] \in {"INITIAL", "UPDATE", "TERMINATION"}
      BY <3>1, HandTypes DEF RulesInv
    <3>4. CASE Type[hand[t].msg] = "TERMINATION" /\ At(t) = c
      BY <3>1, <3>4 DEF RulesInv, TurnInv, InTurn, Settled
    <3>5. CASE ~(Type[hand[t].msg] = "TERMINATION" /\ At(t) = c)
      <4>1. c # At(t) \/ Statement(Type[hand[t].msg], closed).row # "end"
        BY <3>3, <3>5 DEF Statement, NoStatement
      <4> QED BY <1>0, <3>1, <3>2, <3>3, <4>1, AppendedStatement
    <3> QED BY <3>4, <3>5
  <2>2. CASE Rules(t)
    <3>1. hand[t].pc # "idle" /\ UNCHANGED row
      BY <2>2 DEF Rules
    <3>2. \/ OperateRules(At(t), hand[t].active, hand[t].rules)
          \/ UNCHANGED <<row, queue>>
      BY <2>2, <3>1 DEF Rules
    <3>3. At(t) \in Session
      BY <3>1, HandTypes DEF RulesInv
    <3> QED BY <1>1, <1>2, <3>1, <3>2, <3>3
  <2>3. ASSUME NEW p \in Session, NEW served \in BOOLEAN, ChangeUli(t, p, served)
        PROVE  StaysLive(c)'
    <3>1. /\ UNCHANGED row
          /\ \/ UNCHANGED queue
             \/ \E active, rules : OperateRules(p, active, rules)
      BY <2>3 DEF ChangeUli
    <3> QED BY <1>1, <1>2, <3>1
  <2>4. ASSUME NEW m \in DOMAIN Message, NEW conn \in BOOLEAN, Receive(t, m, conn)
        PROVE  UNCHANGED <<row, queue>>
    BY <2>4 DEF Receive, database
  <2>5. CASE \/ Find(t) \/ Look(t) \/ Adopt(t) \/ Insert(t) \/ Linked(t)
             \/ End(t) \/ Get(t) \/ Active(t) \/ Load(t) \/ CacheUpdate(t)
             \/ NullConnection(t) \/ Send(t)
             \/ \E served \in BOOLEAN : ListProcera(t, served)
             \/ \E d \in Session, served \in BOOLEAN : EndChild(t, d, served)
    <3>1. UNCHANGED <<row, queue>>
      BY <2>5 DEF Find, Look, Adopt, Insert, Linked, End, Get, Active, Load,
           CacheUpdate, NullConnection, Send, ListProcera, EndChild, Unmoved, database
    <3> QED BY <1>1, <3>1
  <2> QED BY <1>1, <1>3, <2>1, <2>2, <2>3, <2>4, <2>5 DEF Handle
<1>4. ASSUME NEW s \in Session, Raa(s)
      PROVE  StaysLive(c)' \/ Settled(c)
  <2>1. /\ Enqueue(s, [NoStatement EXCEPT !.row = "end"]) /\ UNCHANGED row
        /\ owed' = owed \ {s}
    BY <1>4 DEF Raa
  <2> QED BY <1>0, <2>1, AppendedStatement DEF Settled
<1>5. ASSUME NEW s \in Session, TakeAbort(s) \/ Visit(s)
      PROVE  UNCHANGED <<row, queue>>
  BY <1>5 DEF TakeAbort, Visit, database
<1>6. CASE Refresh
  <2>1. /\ client.at \in Session /\ UNCHANGED row
        /\ \E active, rules : OperateRules(client.at, active, rules)
    BY <1>6 DEF Refresh, RulesInv, TypeInv, ClientType
  <2> QED BY <1>2, <2>1
<1>7. CASE \/ TakeRefresh \/ \E p \in DOMAIN Profiles : ChangeProfile(p)
           \/ UNCHANGED vars
  <2>1. UNCHANGED <<row, queue>>
    BY <1>7 DEF TakeRefresh, ChangeProfile, vars, database
  <2> QED BY <1>1, <2>1
<1> QED BY <1>1, <1>3, <1>4, <1>5, <1>6, <1>7, AppliedStatement DEF Next

(* What is asked of the refresh queue: a session that waits there or is in *)
(* the hands of its thread is told, if it is cached when its turn comes.   *)
LEMMA NamedStays ==
  ASSUME RulesInv, [Next]_vars, NEW c \in Session, cache[c] # {}, Named(c)
  PROVE  Named(c)' \/ c \in told'
<1>0. IInv
  BY DEF RulesInv
<1>1. ASSUME aborts \subseteq aborts', client' = client PROVE Named(c)'
  BY <1>1 DEF Named, Visits
<1>2. ASSUME NEW t \in Thread, Handle(t)
      PROVE  aborts \subseteq aborts' /\ client' = client
  <2>1. ASSUME NEW m \in DOMAIN Message, NEW conn \in BOOLEAN, Receive(t, m, conn)
        PROVE  UNCHANGED <<aborts, client>>
    BY <2>1 DEF Receive, requests
  <2>2. ASSUME NEW d \in Session, NEW served \in BOOLEAN,
               ChangeUli(t, d, served) \/ EndChild(t, d, served)
        PROVE  aborts \subseteq aborts' /\ client' = client
    BY <2>2 DEF ChangeUli, EndChild, requests
  <2>3. CASE Send(t)
    BY <2>3 DEF Send
  <2>4. CASE \/ Find(t) \/ Look(t) \/ Adopt(t) \/ Insert(t) \/ Linked(t) \/ End(t)
             \/ Get(t) \/ Store(t) \/ Active(t) \/ Load(t) \/ CacheUpdate(t)
             \/ NullConnection(t) \/ Rules(t)
             \/ \E served \in BOOLEAN : ListProcera(t, served)
    <3>1. UNCHANGED <<aborts, client>>
      BY <2>4 DEF Find, Look, Adopt, Insert, Linked, End, Get, Store, Active, Load,
           CacheUpdate, NullConnection, Rules, ListProcera, Unmoved, requests
    <3> QED BY <3>1
  <2> QED BY <1>2, <2>1, <2>2, <2>3, <2>4 DEF Handle
<1>3. ASSUME NEW s \in Session, Apply(s) \/ Raa(s)
      PROVE  UNCHANGED <<aborts, client>>
  BY <1>3 DEF Apply, Raa, requests
<1>4. ASSUME NEW s \in Session, TakeAbort(s)
      PROVE  Named(c)'
  <2>1. /\ client.pc = "idle" /\ aborts' = aborts \ {s}
        /\ client' = [Resting EXCEPT !.pc = "next", !.abort = TRUE, !.todo = {s}]
    BY <1>4 DEF TakeAbort
  <2>2. client'.pc = "next" /\ client'.abort /\ client'.todo = {s}
    BY <2>1 DEF Resting
  <2> QED BY <2>1, <2>2 DEF Named, Visits
<1>5. ASSUME NEW s \in Session, Visit(s)
      PROVE  Named(c)' \/ c \in told'
  <2>1. client.pc = "next" /\ UNCHANGED aborts
    BY <1>5 DEF Visit, requests
  <2>2. CASE Visits(c)
    <3>1. client.abort
      BY <2>2 DEF Visits
    <3>2. /\ client' = Past(s)
          /\ cache[s] # {} => told' = told \cup {s}
      BY <1>5, <3>1 DEF Visit, Skip, Release
    <3> QED BY <1>0, <2>2, <3>2, PastShape DEF Visits, Named
  <2> QED BY <2>1, <2>2 DEF Named
<1>6. CASE Refresh \/ TakeRefresh
  <2>1. UNCHANGED aborts /\ client.pc # "next"
    BY <1>6 DEF Refresh, TakeRefresh, requests
  <2> QED BY <2>1 DEF Named, Visits
<1>7. CASE \/ \E p \in DOMAIN Profiles : ChangeProfile(p)
           \/ UNCHANGED vars
  BY <1>1, <1>7 DEF ChangeProfile, vars, requests
<1> QED BY <1>1, <1>2, <1>3, <1>4, <1>5, <1>6, <1>7 DEF Next

(* No step changes what another handler is at.                             *)
LEMMA OthersStay ==
  ASSUME TypeInv, NEW t \in Thread, Handle(t), NEW u \in Thread, u # t
  PROVE  hand'[u] = hand[u]
<1>0. DOMAIN hand = Thread
  BY DEF TypeInv, HandsType
<1>a. ASSUME NEW h, Go(t, h) PROVE hand'[u] = hand[u]
  BY <1>0, <1>a DEF Go
<1>1. CASE \/ \E m \in DOMAIN Message, conn \in BOOLEAN : Receive(t, m, conn)
           \/ Send(t) \/ NullConnection(t)
  <2>1. ASSUME NEW m \in DOMAIN Message, NEW conn \in BOOLEAN, Receive(t, m, conn)
        PROVE  hand'[u] = hand[u]
    BY <1>a, <2>1 DEF Receive
  <2>2. CASE Send(t)
    BY <1>a, <2>2 DEF Send
  <2> QED BY <1>1, <2>1, <2>2 DEF NullConnection
<1>2. CASE \/ Find(t) \/ Look(t) \/ Adopt(t) \/ Insert(t) \/ Linked(t) \/ End(t)
           \/ Get(t) \/ Active(t) \/ CacheUpdate(t) \/ Rules(t)
  BY <1>2, Going DEF GoesOn
<1>3. CASE Store(t) \/ Load(t)
  BY <1>3, GoingToLoad DEF GoesOn
<1>4. CASE \/ \E served \in BOOLEAN : ListProcera(t, served)
           \/ \E d \in Session, served \in BOOLEAN :
                ChangeUli(t, d, served) \/ EndChild(t, d, served)
  BY <1>4, Going DEF GoesOn
<1> QED BY <1>1, <1>2, <1>3, <1>4 DEF Handle

(* The next of the linked sessions *)
LEMMA ChildEnds ==
  ASSUME RulesInv, NEW t \in Thread, NEW c \in Procera, ListsNext(t, c),
         cache[c] # {}, StaysLive(c),
         NEW d \in Session, NEW served \in BOOLEAN, EndChild(t, d, served)
  PROVE  ListsNext(t, c)' \/ c \in aborts' \/ Settled(c)
<1>0. DOMAIN hand = Thread /\ DOMAIN hand[t] = Fields
  BY HandTypes DEF RulesInv, TypeInv, HandsType
<1>1. DialectOf[c] = "Procera" /\ hand[t].dialect \in {{}, {"Procera"}}
  BY DEF Procera, ListsNext
<1>2. CASE d = c
  <2>1. CASE served
    <3>1. aborts' = aborts \cup ProceraRows(c)
      BY <1>1, <1>2, <2>1 DEF EndChild
    <3>2. c \in ProceraRows(c)
      BY DEF ProceraRows, StaysLive
    <3> QED BY <3>1, <3>2
  <2>2. CASE ~served
    BY <1>2, <2>2 DEF EndChild, Settled
  <2> QED BY <2>1, <2>2
<1>3. CASE d # c
  <2>1. d \in Procera /\ DialectOf[d] = "Procera"
    BY DEF EndChild, ListsNext, Procera
  <2>2. c \in hand[t].todo \ {d} /\ hand[t].todo \ {d} \subseteq Procera
    BY <1>3 DEF ListsNext
  <2>3. /\ hand'[t].todo = hand[t].todo \ {d} /\ hand'[t].pc = "ending"
        /\ hand'[t].dialect \in {{}, {"Procera"}}
    BY <1>0, <1>1, <2>1, <2>2 DEF EndChild, Go, Fields, ListsNext
  <2> QED BY <2>2, <2>3 DEF ListsNext
<1> QED BY <1>2, <1>3

(* What a handler is about to list, it lists.                              *)
LEMMA ListingGoesOn ==
  ASSUME RulesInv, [Next]_vars, NEW t \in Thread, NEW c \in Procera,
         ListsNext(t, c), cache[c] # {}, StaysLive(c)
  PROVE  ListsNext(t, c)' \/ c \in aborts' \/ Settled(c)
<1>1. ASSUME hand'[t] = hand[t] PROVE ListsNext(t, c)'
  BY <1>1 DEF ListsNext
<1>2. ASSUME NEW u \in Thread, Handle(u)
      PROVE  ListsNext(t, c)' \/ c \in aborts' \/ Settled(c)
  <2>1. CASE u # t
    BY <1>1, <1>2, <2>1, OthersStay DEF RulesInv
  <2>2. CASE u = t
    <3>1. hand[t].pc = "ending"
      BY DEF ListsNext
    <3>2. \/ NullConnection(t)
          \/ \E d \in Session, served \in BOOLEAN : EndChild(t, d, served)
      <4>1. ~(\/ Find(t) \/ Look(t) \/ Adopt(t) \/ Insert(t) \/ Linked(t) \/ End(t)
              \/ Get(t) \/ Store(t) \/ Active(t) \/ Load(t) \/ CacheUpdate(t)
              \/ Rules(t) \/ Send(t))
        BY <3>1 DEF Find, Look, Adopt, Insert, Linked, End, Get, Store, Active, Load,
             CacheUpdate, Rules, Send
      <4>2. ~(\/ \E m \in DOMAIN Message, conn \in BOOLEAN : Receive(t, m, conn)
              \/ \E served \in BOOLEAN : ListProcera(t, served)
              \/ \E p \in Session, served \in BOOLEAN : ChangeUli(t, p, served))
        BY <3>1 DEF Receive, ListProcera, ChangeUli
      <4> QED BY <1>2, <2>2, <4>1, <4>2 DEF Handle
    <3>3. CASE NullConnection(t)
      BY <1>1, <3>3 DEF NullConnection
    <3> QED BY <3>2, <3>3, ChildEnds
  <2> QED BY <2>1, <2>2
<1>3. ASSUME NEW s \in Session, Apply(s) \/ Raa(s) \/ TakeAbort(s) \/ Visit(s)
      PROVE  hand' = hand
  BY <1>3 DEF Apply, Raa, TakeAbort, Visit
<1>4. CASE \/ TakeRefresh \/ Refresh \/ UNCHANGED vars
           \/ \E p \in DOMAIN Profiles : ChangeProfile(p)
  BY <1>1, <1>4 DEF TakeRefresh, Refresh, ChangeProfile, vars
<1> QED BY <1>1, <1>2, <1>3, <1>4 DEF Next

(* What is promised is about to be listed.                                 *)
LEMMA PromisedIsListed ==
  ASSUME RulesInv, FreshInv, NEW t \in Thread, Linked(t),
         NEW c \in Procera, c \in owed', c \notin owed
  PROVE  cache'[c] # {} /\ StaysLive(c)' /\ ListsNext(t, c)'
<1>0. DOMAIN hand = Thread /\ DOMAIN hand[t] = Fields
  BY HandTypes DEF RulesInv, TypeInv, HandsType
<1>1. c \in MustBeTold(At(t)) /\ hand[t].pc = "linked"
  BY DEF Linked
<1>2. /\ c \in Children(At(t)) /\ Children(At(t)) \subseteq Procera
      /\ cache[c] # {} /\ StaysLive(c)
  BY <1>1 DEF MustBeTold, Cached
<1>3. hand[t].dialect = {}
  BY <1>1 DEF FreshInv, Fresh
<1>4. UNCHANGED <<cache, row, queue>>
  BY DEF Linked, Unmoved, registry, database
<1>5. /\ hand'[t].pc = "ending" /\ hand'[t].todo = Children(At(t))
      /\ hand'[t].dialect = {}
  BY <1>0, <1>2, <1>3 DEF Linked, Go, Fields
<1> QED BY <1>2, <1>4, <1>5 DEF ListsNext, StaysLive

LEMMA ReachStep ==
  ASSUME RulesInv, ReachInv, [Next]_vars
  PROVE  ReachInv'
<1>0. FreshInv /\ FreshInv'
  BY FreshStep DEF ReachInv
<1>1. ASSUME NEW c \in Procera, c \in owed'
      PROVE  \/ gw'[c] = "closed"
             \/ c \in told'
             \/ /\ cache'[c] # {}
                /\ \/ Named(c)'
                   \/ StaysLive(c)' /\ \E t \in Thread : ListsNext(t, c)'
  <2>0. c \in Session
    BY DEF Procera
  <2>1. CASE c \notin owed
    <3>1. PICK t \in Thread : Linked(t)
      BY <1>0, <1>1, <2>1, OnlyLinkedOwes
    <3> QED BY <1>0, <1>1, <2>1, <3>1, PromisedIsListed
  <2>2. CASE gw[c] = "closed" \/ c \in told
    BY <2>0, <2>2, OverAndTold
  <2>3. CASE c \in owed /\ gw[c] # "closed" /\ c \notin told
    <3>1. /\ cache[c] # {}
          /\ \/ Named(c)
             \/ StaysLive(c) /\ \E t \in Thread : ListsNext(t, c)
      BY <2>3 DEF ReachInv
    <3>2. ~Settled(c)
      BY <1>1, <2>3 DEF Settled
    <3>3. cache'[c] # {}
      BY <2>0, <3>1, <3>2, CachedStays
    <3>4. CASE Named(c)
      BY <2>0, <3>1, <3>3, <3>4, NamedStays
    <3>5. CASE StaysLive(c) /\ \E t \in Thread : ListsNext(t, c)
      <4>1. PICK t \in Thread : ListsNext(t, c)
        BY <3>5
      <4>2. StaysLive(c)'
        BY <2>0, <3>2, <3>5, LiveStays
      <4>3. ListsNext(t, c)' \/ c \in aborts'
        BY <3>1, <3>2, <3>5, <4>1, ListingGoesOn
      <4> QED BY <3>3, <4>2, <4>3 DEF Named
    <3> QED BY <3>1, <3>4, <3>5
  <2> QED BY <2>1, <2>2, <2>3
<1> QED BY <1>0, <1>1 DEF ReachInv

(* Whatever is promised stays in somebody's hands: a handler is about to   *)
(* list it, it waits in the refresh queue, or the thread that takes it     *)
(* from there is about to tell it.                                         *)
THEOREM ReachInvariance == Spec => []ReachInv
<1>1. Init => ReachInv
  BY DEF Init, ReachInv, FreshInv, Fresh, Idle
<1>2. RulesInv /\ ReachInv /\ [Next]_vars => ReachInv'
  BY ReachStep
<1> QED BY <1>1, <1>2, RulesInvariance, PTL DEF Spec

(* "For Procera we initiate the end of the session when the session on the *)
(* UGW is over" (pcrf_server.cpp): the sessions of Procera linked to it,   *)
(* which the database knows, are told to end or over by the time nobody    *)
(* works on anything, if no session of an SCE is linked, too: however many *)
(* of them there are, and whatever else is handled, refreshed, answered    *)
(* and written meanwhile.                                                  *)
THEOREM TerminationReachesHolds == Spec => []TerminationReaches
<1>1. ReachInv => TerminationReaches
  <2> SUFFICES ASSUME ReachInv, Quiet, NEW s \in owed \cap Procera
               PROVE  s \in told \/ gw[s] = "closed"
    BY DEF TerminationReaches
  <2>1. ~\E t \in Thread : ListsNext(t, s)
    BY DEF Quiet, ListsNext
  <2>2. ~Named(s)
    BY DEF Quiet, Named, Visits
  <2> QED BY <2>1, <2>2 DEF ReachInv
<1> QED BY <1>1, ReachInvariance, PTL
-----------------------------------------------------------------------------
(* The session cache as the handlers use it is the registry: the links are *)
(* those of a relation whose pairs begin with a cached session.            *)
Links == {l \in Session \X Core : parent[l[1]] = l[2]}

LinkInv == \A s \in Session : parent[s] # NoSession => cache[s] # {}

LEMMA RegistryInitially == Init => Registry!Init /\ LinkInv
<1> SUFFICES ASSUME Init PROVE Registry!Init /\ LinkInv
  OBVIOUS
<1>1. Cached = {} /\ LinkInv
  BY DEF Init, Cached, LinkInv
<1>2. Links = {}
  <2>1. ASSUME NEW l \in Session \X Core PROVE parent[l[1]] # l[2]
    BY SessionAssumption DEF Init, Core
  <2> QED BY <2>1 DEF Links
<1> QED BY <1>1, <1>2 DEF Registry!Init, Links

(* A step of the server is one of the registry, or none.                   *)
RegistryStep == [Registry!Next]_<<Cached, Links>>

(* A session that was not cached opens, with its link if it gets one; one  *)
(* that was is replaced, and neither it nor those linked to it go.         *)
LEMMA InsertIsOpen ==
  ASSUME TypeInv, LinkInv, NEW s \in Session, NEW data,
         NEW p \in Core \cup {NoSession}, p # NoSession => s \notin Core,
         InsertSession(s, data, p)
  PROVE  LinkInv' /\ RegistryStep
<1>0. DOMAIN cache = Session /\ parent \in [Session -> Core \cup {NoSession}]
  BY DEF TypeInv, RegistryType
<1>a. NoSession \notin Core /\ Core \subseteq Session
  BY SessionAssumption DEF Core
<1>1. CASE cache[s] = {}
  <2>1. cache' = [cache EXCEPT ![s] = {data}]
    BY <1>1 DEF InsertSession
  <2>2. Cached' = Cached \cup {s} /\ s \notin Cached
    BY <1>0, <1>1, <2>1 DEF Cached
  <2>3. parent[s] = NoSession
    BY <1>1 DEF LinkInv
  <2>4. CASE p = NoSession
    <3>1. parent' = parent
      BY <1>1, <2>4 DEF InsertSession
    <3>2. LinkInv'
      BY <1>0, <2>1, <3>1 DEF LinkInv
    <3>3. Registry!Open(s, {})
      BY <2>2, <3>1 DEF Registry!Open, Links
    <3>4. Registry!Next
      BY <1>a, <3>3 DEF Registry!Next, Registry!Party
    <3> QED BY <3>2, <3>4 DEF RegistryStep
  <2>5. CASE p # NoSession
    <3>1. parent' = [parent EXCEPT ![s] = p] /\ p \in Core /\ s \notin Core
      BY <1>1, <2>5 DEF InsertSession
    <3>2. LinkInv'
      BY <1>0, <2>1, <3>1 DEF LinkInv
    <3>3. Links' = Links \cup {<<s, p>>}
      <4>1. ASSUME NEW c \in Session, NEW q \in Core
            PROVE  parent'[c] = q <=> parent[c] = q \/ (c = s /\ q = p)
        BY <1>0, <1>a, <2>3, <3>1
      <4>2. ASSUME NEW l \in Session \X Core
            PROVE  l \in Links' <=> l \in Links \cup {<<s, p>>}
        <5>1. l[1] \in Session /\ l[2] \in Core /\ l = <<l[1], l[2]>>
          OBVIOUS
        <5>2. l = <<s, p>> <=> l[1] = s /\ l[2] = p
          BY <5>1
        <5> QED BY <4>1, <5>1, <5>2 DEF Links
      <4>3. /\ Links \subseteq Session \X Core /\ Links' \subseteq Session \X Core
            /\ <<s, p>> \in Session \X Core
        BY <3>1 DEF Links
      <4> QED BY <4>2, <4>3
    <3>4. Registry!Open(s, {<<s, p>>})
      BY <2>2, <3>1, <3>3 DEF Registry!Open, Links
    <3>5. {<<s, p>>} \in SUBSET ((Session \ Core) \X Core)
      BY <3>1
    <3>6. Registry!Next
      BY <1>a, <3>4, <3>5 DEF Registry!Next, Registry!Party
    <3> QED BY <3>2, <3>6 DEF RegistryStep
  <2> QED BY <2>4, <2>5
<1>2. CASE cache[s] # {}
  <2>1. parent' = parent
    BY <1>2 DEF InsertSession
  <2>2. \A c \in Session : cache'[c] # {} <=> cache[c] # {}
    <3> SUFFICES ASSUME NEW c \in Session
                 PROVE  cache'[c] # {} <=> cache[c] # {}
      OBVIOUS
    <3>1. cache'[c] = IF c = s THEN {data}
                      ELSE IF parent[c] = s THEN {Updated(d, data) : d \in cache[c]}
                      ELSE cache[c]
      BY <1>2 DEF InsertSession
    <3> QED BY <1>2, <3>1
  <2>3. LinkInv'
    BY <2>1, <2>2 DEF LinkInv
  <2> QED BY <2>1, <2>2, <2>3 DEF RegistryStep, Cached, Links
<1> QED BY <1>1, <1>2

(* One that goes takes its links along.                                    *)
LEMMA RemoveIsClose ==
  ASSUME TypeInv, LinkInv, NEW s \in Session, RemoveSession(s)
  PROVE  LinkInv' /\ RegistryStep
<1>0. DOMAIN cache = Session /\ parent \in [Session -> Core \cup {NoSession}]
  BY DEF TypeInv, RegistryType
<1>a. NoSession \notin Core /\ Core \subseteq Session
  BY SessionAssumption DEF Core
<1>1. /\ cache' = [cache EXCEPT ![s] = {}]
      /\ parent' = [c \in Session |->
                      IF s \in {c, parent[c]} THEN NoSession ELSE parent[c]]
  BY DEF RemoveSession
<1>2. Cached' = Cached \ {s}
  BY <1>0, <1>1 DEF Cached
<1>3. LinkInv'
  BY <1>0, <1>1 DEF LinkInv
<1>4. Links' = {l \in Links : s \notin {l[1], l[2]}}
  <2>1. ASSUME NEW c \in Session, NEW q \in Core
        PROVE  parent'[c] = q <=> parent[c] = q /\ s # c /\ s # q
    BY <1>0, <1>a, <1>1
  <2>2. ASSUME NEW l \in Session \X Core
        PROVE  l \in Links' <=> l \in Links /\ s \notin {l[1], l[2]}
    BY <2>1 DEF Links
  <2> QED BY <2>2 DEF Links
<1>5. Registry!Close(s)
  BY <1>2, <1>4 DEF Registry!Close, Links
<1>6. Registry!Next
  BY <1>a, <1>5 DEF Registry!Next, Registry!Party
<1> QED BY <1>3, <1>6 DEF RegistryStep

LEMMA RegistryFollows ==
  ASSUME RulesInv, FreshInv, LinkInv, [Next]_vars
  PROVE  LinkInv' /\ RegistryStep
<1>0. TypeInv
  BY DEF RulesInv
<1>a. ASSUME UNCHANGED <<cache, parent>> PROVE LinkInv' /\ RegistryStep
  BY <1>a DEF LinkInv, RegistryStep, Cached, Links
<1>1. ASSUME NEW t \in Thread, Handle(t)
      PROVE  LinkInv' /\ RegistryStep
  <2>1. CASE Insert(t) \/ CacheUpdate(t)
    <3>1. InsertSession(At(t), hand[t].data, hand[t].core)
      BY <2>1 DEF Insert, CacheUpdate
    <3>2. hand[t].pc # "idle"
      BY <2>1 DEF Insert, CacheUpdate
    <3>3. At(t) \in Session /\ hand[t].core \in Core \cup {NoSession}
      BY <1>0, <3>2, HandTypes
    <3>4. hand[t].core # NoSession => At(t) \notin Core
      BY DEF FreshInv, Fresh, At
    <3> QED BY <1>0, <3>1, <3>3, <3>4, InsertIsOpen
  <2>2. CASE End(t)
    <3>1. RemoveSession(At(t)) /\ hand[t].pc # "idle"
      BY <2>2 DEF End
    <3>2. At(t) \in Session
      BY <1>0, <3>1, HandTypes
    <3> QED BY <1>0, <3>1, <3>2, RemoveIsClose
  <2>3. ASSUME NEW m \in DOMAIN Message, NEW conn \in BOOLEAN, Receive(t, m, conn)
        PROVE  UNCHANGED <<cache, parent>>
    BY <2>3 DEF Receive, registry
  <2>4. ASSUME NEW c \in Session, NEW served \in BOOLEAN,
               ChangeUli(t, c, served) \/ EndChild(t, c, served)
        PROVE  UNCHANGED <<cache, parent>>
    BY <2>4 DEF ChangeUli, EndChild, registry
  <2>5. CASE \/ Find(t) \/ Look(t) \/ Adopt(t) \/ Linked(t) \/ Get(t) \/ Store(t)
             \/ Active(t) \/ Load(t) \/ NullConnection(t) \/ Rules(t) \/ Send(t)
             \/ \E served \in BOOLEAN : ListProcera(t, served)
    <3>1. UNCHANGED <<cache, parent>>
      BY <2>5 DEF Find, Look, Adopt, Linked, Get, Store, Active, Load,
           NullConnection, Rules, Send, ListProcera, Unmoved, registry
    <3> QED BY <1>a, <3>1
  <2> QED BY <1>a, <1>1, <2>1, <2>2, <2>3, <2>4, <2>5 DEF Handle
<1>2. ASSUME NEW s \in Session, Raa(s)
      PROVE  LinkInv' /\ RegistryStep
  BY <1>0, <1>2, RemoveIsClose DEF Raa
<1>3. ASSUME NEW s \in Session, Apply(s) \/ TakeAbort(s) \/ Visit(s)
      PROVE  UNCHANGED <<cache, parent>>
  BY <1>3 DEF Apply, TakeAbort, Visit, registry
<1>4. CASE TakeRefresh \/ Refresh \/ \E p \in DOMAIN Profiles : ChangeProfile(p)
  BY <1>4, <1>a DEF TakeRefresh, Refresh, ChangeProfile, registry
<1>5. CASE UNCHANGED vars
  BY <1>5, <1>a DEF vars, registry
<1> QED BY <1>a, <1>1, <1>2, <1>3, <1>4, <1>5 DEF Next

(* The handlers look up, fill and insert in separate steps, threads of     *)
(* other requests, refreshes and late answers to RARs in between; the      *)
(* session cache they leave is the registry of SessionRegistry all the     *)
(* same: a link is made as its session comes to life, and goes with either *)
(* end.                                                                    *)
THEOREM RegistryIsKept == Spec => KeepsRegistry
<1>1. Init => LinkInv /\ Registry!Init
  BY RegistryInitially
<1>2. RulesInv /\ ReachInv /\ LinkInv /\ [Next]_vars => LinkInv' /\ RegistryStep
  BY RegistryFollows DEF ReachInv
<1>3. Spec => []LinkInv
  BY <1>1, <1>2, RulesInvariance, ReachInvariance, PTL DEF Spec
<1> QED
  BY <1>1, <1>2, <1>3, RulesInvariance, ReachInvariance, PTL
  DEF Spec, KeepsRegistry, RegistryStep, Registry!Spec, Registry!vars, Links
-----------------------------------------------------------------------------
(* What a refresh passes over: loaded and active rules that show no        *)
(* changes have the same names.                                            *)
LEMMA NoChanges ==
  ASSUME NEW loaded, RuleList(loaded), NEW active, BareList(active),
         \A i \in DOMAIN loaded : ~loaded[i].active /\ loaded[i].relevant,
         \A i \in DOMAIN active : active[i].active /\ ~active[i].relevant,
         ~IsAnyChanges(SelectActive(loaded, active), SelectRelevant(loaded, active))
  PROVE  Names(loaded) = Names(active)
<1> DEFINE rules == SelectActive(loaded, active)
           old == SelectRelevant(loaded, active)
<1>1. /\ rules = [i \in DOMAIN loaded |->
                    IF loaded[i].name \in Names(active)
                    THEN [loaded[i] EXCEPT !.active = TRUE] ELSE loaded[i]]
      /\ old = [i \in DOMAIN active |->
                  IF active[i].name \in Names(loaded)
                  THEN [active[i] EXCEPT !.relevant = TRUE] ELSE active[i]]
  BY DEF SelectActive, SelectRelevant
<1>2. /\ \A i \in DOMAIN old : old[i].relevant \/ ~old[i].active
      /\ \A i \in DOMAIN rules : rules[i].active \/ ~rules[i].relevant
  BY DEF IsAnyChanges
<1> HIDE DEF rules, old
<1>3. ASSUME NEW i \in DOMAIN loaded PROVE loaded[i].name \in Names(active)
  <2>1. CASE loaded[i].name \notin Names(active)
    <3>1. i \in DOMAIN rules /\ rules[i] = loaded[i]
      BY <1>1, <2>1
    <3> QED BY <1>2, <3>1
  <2> QED BY <2>1
<1>4. ASSUME NEW i \in DOMAIN active PROVE active[i].name \in Names(loaded)
  <2>1. CASE active[i].name \notin Names(loaded)
    <3>1. i \in DOMAIN old /\ old[i] = active[i]
      BY <1>1, <2>1
    <3> QED BY <1>2, <3>1
  <2> QED BY <2>1
<1>5. /\ Names(loaded) = {loaded[i].name : i \in DOMAIN loaded}
      /\ Names(active) = {active[i].name : i \in DOMAIN active}
  BY DEF Names
<1>6. Names(loaded) \subseteq Names(active)
  BY <1>3, <1>5
<1>7. Names(active) \subseteq Names(loaded)
  BY <1>4, <1>5
<1> QED BY <1>6, <1>7

(* The refresh thread is through with a session that it neither sends      *)
(* anything nor asks to end.                                               *)
PassedOver(s) ==
  /\ client.pc = "next" /\ ~client.abort /\ s \in client.todo \ client'.todo
  /\ cache[s] # {} /\ s \notin told'

LEMMA OnlyVisits ==
  ASSUME RulesInv, Next, NEW s \in Session, PassedOver(s)
  PROVE  Visit(s) /\ client' = Past(s)
<1>0. DOMAIN client = ClientFields /\ client' # client
  BY DEF RulesInv, TypeInv, ClientType, PassedOver
<1>1. ASSUME NEW t \in Thread, Handle(t) PROVE client' = client
  BY <1>1 DEF Handle, Find, Look, Adopt, Insert, Linked, End, Get, Store, Active,
         Load, EndChild, CacheUpdate, NullConnection, ListProcera, ChangeUli,
         Rules, Send, Receive, Unmoved
<1>2. ASSUME NEW p \in Session, Apply(p) \/ Raa(p) PROVE client' = client
  BY <1>2 DEF Apply, Raa
<1>3. ~(\E p \in Session : TakeAbort(p)) /\ ~TakeRefresh /\ ~Refresh
  BY DEF PassedOver, TakeAbort, TakeRefresh, Refresh
<1>4. ASSUME NEW p \in DOMAIN Profiles, ChangeProfile(p) PROVE client' = client
  BY <1>4 DEF ChangeProfile
<1>5. PICK p \in Session : Visit(p)
  BY <1>0, <1>1, <1>2, <1>3, <1>4 DEF Next
<1>6. client' = Past(p) \/ client'.todo = client.todo
  <2>1. CASE client' # Past(p)
    <3>1. PICK names \in Reads(The(cache[p]).owner) : Compare(p, names)
      BY <1>5, <2>1 DEF Visit, Skip, Release
    <3>2. ~Release(p) /\ ~Skip(p)
      BY <2>1 DEF Skip, Release
    <3> DEFINE loaded == LoadRuleInfo(Known, names, DialectOf[p], <<>>)
               active == SelectRelevant(loaded, ActiveRules(p))
               marked == SelectActive(loaded, ActiveRules(p))
    <3>3. \E keys : client' = [client EXCEPT !.pc = "send", !.at = p, !.keys = keys,
                                 !.rules = marked, !.active = active]
      BY <3>1, <3>2 DEF Compare, Marked
    <3> HIDE DEF loaded, active, marked
    <3> QED BY <1>0, <3>3 DEF ClientFields
  <2> QED BY <2>1
<1>7. client' = Past(p)
  BY <1>6 DEF PassedOver
<1>8. p = s
  <2>1. CASE p # s
    <3>1. s \in Past(p).todo
      BY <2>1, PastShape DEF PassedOver, RulesInv
    <3> QED BY <1>7, <3>1 DEF PassedOver
  <2> QED BY <2>1
<1> QED BY <1>5, <1>7, <1>8

(* A refresh that passes over a session, because what it loaded shows no   *)
(* changes, is right to: the gateway has those rules and no others, unless *)
(* two threads changed the rules at a time or a handler is about to answer. *)
SkipIsRight ==
  [][\A s \in Core \cup Procera :
       PassedOver(s) /\ gw[s] = "open" /\ s \notin crossed /\ ~Handled(s)
         => \E names \in Reads(The(cache[s]).owner) :
              Plain(held[s]) \ Unaccounted
                = Names(LoadRuleInfo(Known, names, DialectOf[s], <<>>))
                    \ Unaccounted]_vars

(* The refresh compares names with the cache of session rules and not with *)
(* the gateway; that the two agree makes the comparison one with the       *)
(* gateway.                                                                *)
THEOREM RefreshPassesRightly == Spec => SkipIsRight
<1>1. ASSUME RulesInv, Next, NEW s \in Core \cup Procera, PassedOver(s),
             gw[s] = "open", s \notin crossed, ~Handled(s)
      PROVE  \E names \in Reads(The(cache[s]).owner) :
               Plain(held[s]) \ Unaccounted
                 = Names(LoadRuleInfo(Known, names, DialectOf[s], <<>>))
                     \ Unaccounted
  <2>0. s \in Session /\ DialectOf[s] # "SCE"
    BY GatewayDialects DEF Core, Procera
  <2>1. Visit(s) /\ client' = Past(s) /\ cache[s] # {} /\ ~client.abort
        /\ s \notin told'
    BY <1>1, <2>0, OnlyVisits DEF PassedOver
  <2>2. PICK names \in Reads(The(cache[s]).owner) : Compare(s, names)
    BY <2>1 DEF Visit
  <2> DEFINE loaded == LoadRuleInfo(Known, names, DialectOf[s], <<>>)
             active == ActiveRules(s)
  <2>3. IsList(names)
    <3>1. The(cache[s]).owner \in BOOLEAN
      BY <1>1, <2>0, <2>1 DEF RulesInv, TypeInv, RegistryType, DataType, The
    <3> QED BY <1>1, <3>1, ReadLists DEF RulesInv
  <2>4. /\ RuleList(loaded)
        /\ \A i \in DOMAIN loaded : ~loaded[i].active /\ loaded[i].relevant
    BY <2>0, <2>3, LoadedOnes
  <2>5. /\ BareList(active) /\ Names(active) = rulesOf[s]
        /\ \A i \in DOMAIN active : active[i].active /\ ~active[i].relevant
    BY <1>1, <2>0, ActiveList DEF RulesInv, DataInv, FiniteStores
  <2>6. client'.pc # "send"
    BY <1>1, <2>1, ClientIdles DEF RulesInv
  <2>7. ~IsAnyChanges(SelectActive(loaded, active), SelectRelevant(loaded, active))
    <3>1. ~Release(s)
      BY <2>1 DEF Release
    <3>2. CASE IsAnyChanges(SelectActive(loaded, active),
                            SelectRelevant(loaded, active))
      <4> DEFINE old == SelectRelevant(loaded, active)
                 marked == SelectActive(loaded, active)
      <4>1. \E keys : client' = [client EXCEPT !.pc = "send", !.at = s, !.keys = keys,
                                   !.rules = marked, !.active = old]
        BY <2>2, <3>1, <3>2 DEF Compare, Marked
      <4> HIDE DEF loaded, active, old, marked
      <4> QED BY <1>1, <2>6, <4>1 DEF RulesInv, TypeInv, ClientType, ClientFields
    <3> QED BY <3>2
  <2> HIDE DEF loaded, active
  <2>8. Names(loaded) = rulesOf[s]
    BY <2>4, <2>5, <2>7, NoChanges
  <2>9. Matches(held[s], rulesOf[s])
    BY <1>1 DEF RulesInv, AgreeInv, AgreesAt
  <2>10. Plain(held[s]) \ Unaccounted = rulesOf[s] \ Unaccounted
    BY <2>9, PlainRules DEF Matches
  <2> QED BY <2>8, <2>10 DEF loaded
<1>2. RulesInv /\ [Next]_vars
        => [\A s \in Core \cup Procera :
              PassedOver(s) /\ gw[s] = "open" /\ s \notin crossed /\ ~Handled(s)
                => \E names \in Reads(The(cache[s]).owner) :
                     Plain(held[s]) \ Unaccounted
                       = Names(LoadRuleInfo(Known, names, DialectOf[s], <<>>))
                           \ Unaccounted]_vars
  BY <1>1
<1> QED BY <1>2, RulesInvariance, PTL DEF Spec, SkipIsRight
-----------------------------------------------------------------------------
(* When the process dies: the sessions of Procera are told of a change of  *)
(* location by the update of a core session only.                          *)
LEMMA MovesAtCore ==
  ASSUME NEW m \in DOMAIN Message, "PROCERA_CHANGE_ULI" \in Actions[m]
  PROVE  SessionOf[m] \in Core
<1> DEFINE dialect == DialectOf[SessionOf[m]]
           triggers == Request[m].triggers
<1>1. "PROCERA_CHANGE_ULI" \in Triggered(dialect, triggers, ProceraUsed)
  BY DEF Actions, ActionSet
<1>2. PICK i \in DOMAIN triggers :
        "PROCERA_CHANGE_ULI" \in TriggerActions(dialect, triggers[i], ProceraUsed)
  BY <1>1 DEF Triggered
<1> HIDE DEF dialect
<1>3. ASSUME dialect \notin CoreDialect, NEW trigger, NEW used
      PROVE  "PROCERA_CHANGE_ULI" \notin TriggerActions(dialect, trigger, used)
  BY <1>3 DEF TriggerActions
<1>4. dialect \in CoreDialect
  BY <1>2, <1>3
<1> QED BY <1>4, MessageAssumption DEF Core, dialect

Placing(h) ==
  /\ "PROCERA_CHANGE_ULI" \in h.actions => SessionOf[h.msg] \in Core
  /\ h.pc \in {"update", "uli", "rar"} => Type[h.msg] = "UPDATE"
  /\ h.pc \in {"uli", "rar"} => SessionOf[h.msg] \in Core
  /\ h.pc = "rar" => h.todo # {}

Deadly(h) == h.pc = "rar" /\ ~h.conn

DeathInv ==
  /\ \A t \in Thread : Placing(hand[t])
  /\ ~alive => \E t \in Thread : Deadly(hand[t])

(* What a handler does before it tells the sessions of Procera             *)
LEMMA WayPlaces ==
  ASSUME TypeInv, NEW t \in Thread, Placing(hand[t]), Handle(t)
  PROVE  Placing(hand'[t])
<1>0. DOMAIN hand = Thread /\ DOMAIN hand[t] = Fields
  BY DEF TypeInv, HandsType, HandType
<1>1. ASSUME NEW pcs, GoesOn(t, pcs), pcs \cap {"update", "uli", "rar"} = {},
             hand'[t].actions \in {hand[t].actions, {}}
      PROVE  Placing(hand'[t])
  BY <1>1 DEF Placing, GoesOn
<1>2. CASE \/ Find(t) \/ Look(t) \/ Adopt(t) \/ Get(t) \/ Active(t)
           \/ Insert(t) \/ Linked(t) \/ End(t) \/ Rules(t)
  <2>1. GoesOn(t, PC \ {"update", "uli", "rar"})
    BY <1>2, Going DEF GoesOn, PC
  <2>2. hand'[t].actions \in {hand[t].actions, {}}
    <3>1. ASSUME NoCore(t) PROVE hand'[t].actions = hand[t].actions
      BY <1>0, <3>1 DEF NoCore, Go, Fields
    <3>2. ASSUME Find(t), ~NoCore(t) PROVE hand'[t].actions = hand[t].actions
      BY <1>0, <3>2 DEF Find, Go, Fields
    <3>3. ASSUME NEW pc, Then(t, pc) PROVE hand'[t].actions = hand[t].actions
      BY <1>0, <3>3 DEF Then, Go, Fields
    <3>4. CASE Look(t) \/ Insert(t) \/ End(t)
      BY <3>1, <3>3, <3>4 DEF Look, Insert, End
    <3>5. CASE Adopt(t) \/ Active(t) \/ Linked(t)
      BY <1>0, <3>5 DEF Adopt, Active, Linked, Go, Fields
    <3>6. CASE Get(t)
      BY <1>0, <3>6 DEF Get, Go, Fields
    <3>7. CASE Rules(t)
      BY <1>0, <3>7 DEF Rules, Go, Idle
    <3> QED BY <1>2, <3>1, <3>2, <3>4, <3>5, <3>6, <3>7
  <2> QED BY <1>1, <2>1, <2>2
<1>3. CASE \E c \in Session, served \in BOOLEAN : EndChild(t, c, served)
  <2>1. PICK c \in Session, served \in BOOLEAN : EndChild(t, c, served)
    BY <1>3
  <2>2. hand'[t].actions = hand[t].actions
    BY <1>0, <2>1 DEF EndChild, Go, Fields
  <2>3. GoesOn(t, {"remove", "ending"})
    BY <2>1, Going
  <2> QED BY <1>1, <2>2, <2>3
<1>4. CASE Send(t)
  <2>1. hand'[t] = Idle
    BY <1>0, <1>4 DEF Send, Go
  <2> QED BY <2>1 DEF Placing, Idle
<1>5. CASE NullConnection(t)
  BY <1>5 DEF NullConnection
<1>6. ASSUME NEW m \in DOMAIN Message, NEW conn \in BOOLEAN, Receive(t, m, conn)
      PROVE  Placing(hand'[t])
  <2>1. /\ hand'[t].msg = m /\ hand'[t].actions = Actions[m]
        /\ hand'[t].pc = FirstStep(DialectOf[SessionOf[m]], Type[m])
    BY <1>0, <1>6 DEF Receive, Go, Idle
  <2>2. hand'[t].pc \notin {"update", "uli", "rar"}
    BY <2>1 DEF FirstStep
  <2> QED BY <2>1, <2>2, MovesAtCore DEF Placing
<1>7. ASSUME hand'[t].msg = hand[t].msg,
             hand'[t].actions \subseteq hand[t].actions \cup {"OPERATE_RULE"},
             NEW type, type = Type[hand[t].msg],
             \/ hand'[t].pc \in {AfterLoad(type, hand'[t].actions), "active", "load"}
             \/ hand'[t].pc = AfterCacheUpdate(hand'[t].actions) /\ type = "UPDATE"
      PROVE  Placing(hand'[t])
  <2>1. /\ hand'[t].pc \in {"update", "uli", "rar"} => type = "UPDATE"
        /\ hand'[t].pc = "uli" => "PROCERA_CHANGE_ULI" \in hand'[t].actions
        /\ hand'[t].pc # "rar"
    BY <1>7 DEF AfterLoad, AfterCacheUpdate
  <2> QED BY <1>7, <2>1 DEF Placing
<1>8. CASE Store(t)
  <2>1. /\ hand'[t].msg = hand[t].msg /\ hand'[t].actions = hand[t].actions
        /\ hand'[t].pc \in {AfterLoad(Type[hand[t].msg], hand[t].actions),
                            "active", "load"}
    BY <1>0, <1>8 DEF Store, Then, Go, Fields
  <2> QED BY <1>7, <2>1
<1>9. CASE CacheUpdate(t)
  <2>1. /\ hand'[t].msg = hand[t].msg /\ hand'[t].actions = hand[t].actions
        /\ hand'[t].pc = AfterCacheUpdate(hand[t].actions)
    BY <1>0, <1>9 DEF CacheUpdate, Then, Go, Fields
  <2>2. Type[hand[t].msg] = "UPDATE"
    BY <1>9 DEF CacheUpdate, Placing
  <2> QED BY <1>7, <2>1, <2>2
<1>10. CASE Load(t)
  <2>1. PICK names, asked : \/ Loaded(t, Gathered(t, names, asked))
                            \/ Loaded(t, Defaults(t))
    BY <1>10 DEF Load
  <2>2. PICK g \in {Gathered(t, names, asked), Defaults(t)} : Loaded(t, g)
    BY <2>1
  <2>3. DOMAIN g = Fields /\ g.msg = hand[t].msg
    BY GatheredKept
  <2>4. g.actions \subseteq hand[t].actions \cup {"OPERATE_RULE"}
    <3>1. CASE g = Gathered(t, names, asked)
      BY <1>0, <3>1 DEF Gathered, Fields
    <3>2. CASE g = Defaults(t)
      BY <1>0, <3>2 DEF Defaults, Fields
    <3> QED BY <3>1, <3>2
  <2>5. /\ hand'[t].msg = g.msg /\ hand'[t].actions = g.actions
        /\ hand'[t].pc = AfterLoad(Type[g.msg], g.actions)
    BY <1>0, <2>2, <2>3 DEF Loaded, Go, Fields
  <2> QED BY <1>7, <2>3, <2>4, <2>5
<1>11. ASSUME NEW served \in BOOLEAN, ListProcera(t, served)
       PROVE  Placing(hand'[t])
  <2>1. /\ hand'[t].actions = hand[t].actions /\ hand'[t].msg = hand[t].msg
        /\ hand'[t].pc \in {"rules", "rar"}
        /\ hand'[t].pc = "rar" => hand'[t].todo # {}
        /\ hand[t].pc = "uli"
    BY <1>0, <1>11 DEF ListProcera, Go, Fields
  <2> QED BY <2>1 DEF Placing
<1>12. ASSUME NEW p \in Session, NEW served \in BOOLEAN, ChangeUli(t, p, served)
       PROVE  Placing(hand'[t])
  <2>1. /\ hand'[t].actions = hand[t].actions /\ hand'[t].msg = hand[t].msg
        /\ hand'[t].pc \in {"rules", "rar"}
        /\ hand'[t].pc = "rar" => hand'[t].todo # {}
        /\ hand[t].pc = "rar"
    BY <1>0, <1>12 DEF ChangeUli, Go, Fields
  <2> QED BY <2>1 DEF Placing
<1> QED BY <1>2, <1>3, <1>4, <1>5, <1>6, <1>8, <1>9, <1>10, <1>11, <1>12
     DEF Handle

LEMMA DeathStep ==
  ASSUME TypeInv, DeathInv, [Next]_vars
  PROVE  DeathInv'
<1>1. ASSUME UNCHANGED <<hand, alive>> PROVE DeathInv'
  BY <1>1 DEF DeathInv
<1>2. ASSUME NEW t \in Thread, Handle(t)
      PROVE  DeathInv'
  <2>1. alive
    BY <1>2 DEF Handle, Find, Look, Adopt, Insert, Linked, End, Get, Store, Active,
           Load, EndChild, CacheUpdate, NullConnection, ListProcera, ChangeUli,
           Rules, Send, Receive
  <2>2. \A u \in Thread : Placing(hand'[u])
    <3>1. Placing(hand'[t])
      BY <1>2, WayPlaces DEF DeathInv
    <3>2. \A u \in Thread \ {t} : hand'[u] = hand[u]
      BY <1>2, OthersStay
    <3> QED BY <3>1, <3>2 DEF DeathInv
  <2>3. ~alive' => \E u \in Thread : Deadly(hand'[u])
    <3>1. CASE NullConnection(t)
      BY <3>1 DEF NullConnection, Deadly
    <3>2. CASE ~NullConnection(t)
      <4>1. alive' = alive
        BY <1>2, <3>2 DEF Handle, Find, Look, Adopt, Insert, Linked, End, Get, Store,
               Active, Load, EndChild, CacheUpdate, ListProcera, ChangeUli, Rules,
               Send, Receive, Unmoved
      <4> QED BY <2>1, <4>1
    <3> QED BY <3>1, <3>2
  <2> QED BY <2>2, <2>3 DEF DeathInv
<1>3. ASSUME NEW s \in Session, Apply(s) \/ Raa(s) \/ TakeAbort(s) \/ Visit(s)
      PROVE  UNCHANGED <<hand, alive>>
  BY <1>3 DEF Apply, Raa, TakeAbort, Visit
<1>4. CASE TakeRefresh \/ Refresh \/ UNCHANGED vars
  BY <1>1, <1>4 DEF TakeRefresh, Refresh, vars
<1>5. ASSUME NEW p \in DOMAIN Profiles, ChangeProfile(p)
      PROVE  UNCHANGED <<hand, alive>>
  BY <1>5 DEF ChangeProfile
<1> QED BY <1>1, <1>2, <1>3, <1>4, <1>5 DEF Next

(* The process dies at most of an update of a core session that reports a  *)
(* new location, has no connection and has sessions of Procera to tell.    *)
DiesOfMoves ==
  ~alive => \E t \in Thread :
              /\ hand[t].pc = "rar" /\ ~hand[t].conn
              /\ Type[hand[t].msg] = "UPDATE" /\ At(t) \in Core
              /\ hand[t].todo # {} /\ hand[t].todo \subseteq Procera

(* What the null connection of pcrf_procera_change_uli can do to the       *)
(* server, and nothing else can: without a session of Procera it survives. *)
THEOREM OnlyMovesKill == Spec => [](DiesOfMoves /\ (Procera = {} => Survives))
<1>1. Init => DeathInv
  BY DEF Init, DeathInv, Placing, Idle
<1>2. RulesInv /\ DeathInv /\ [Next]_vars => DeathInv'
  BY DeathStep DEF RulesInv
<1>3. RulesInv /\ DeathInv => DiesOfMoves /\ (Procera = {} => Survives)
  <2> SUFFICES ASSUME RulesInv, DeathInv
               PROVE  DiesOfMoves /\ (Procera = {} => Survives)
    OBVIOUS
  <2>1. ASSUME NEW t \in Thread, Deadly(hand[t])
        PROVE  /\ hand[t].pc = "rar" /\ ~hand[t].conn
               /\ Type[hand[t].msg] = "UPDATE" /\ At(t) \in Core
               /\ hand[t].todo # {} /\ hand[t].todo \subseteq Procera
    BY <2>1 DEF Deadly, DeathInv, Placing, RulesInv, DataInv, HandData, At
  <2> QED BY <2>1 DEF DeathInv, DiesOfMoves, Survives
<1> QED BY <1>1, <1>2, <1>3, RulesInvariance, PTL DEF Spec
=============================================================================
