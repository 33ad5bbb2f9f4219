------------------------- MODULE RefreshQueueProofs -------------------------
(***************************************************************************)
(* The safety properties of module RefreshQueue, for any sessions, peers   *)
(* and rows, and whatever the bounds of the model are.                     *)
(***************************************************************************)
EXTENDS RefreshQueue, FiniteSetTheorems, TLAPS

(* The numbers the local queue has given are in four places that do not    *)
(* meet.                                                                   *)
Apart ==
  /\ Numbers(aborts) \cap Numbers(refreshes) = {}
  /\ Numbers(aborts) \cap Numbers(list) = {}
  /\ Numbers(refreshes) \cap Numbers(list) = {}
  /\ (Numbers(aborts) \cup Numbers(refreshes) \cup Numbers(list)) \cap handled = {}

Once == NoneTwice(aborts) /\ NoneTwice(refreshes) /\ NoneTwice(list)

Given == Numbers(aborts) \cup Numbers(refreshes) \cup Numbers(list) \cup handled

Places ==
  /\ Given \subseteq 1 .. asked
  /\ stop \/ 1 .. asked \subseteq Given

(* The list is empty between passes, and has rows only until the local     *)
(* queue is read.                                                          *)
ListInv ==
  /\ pc \in {"waiting", "rows", "ended"} => list = <<>>
  /\ pc = "local" => Numbers(list) = {}

(* What is owed is still to come, or in hand. *)
OwedInv ==
  /\ owed \subseteq left \cup ({at} \ {NoSession})
  /\ pc \notin {"session", "rules"} => owed = {}

(* The table is finite and has rows only. *)
Table == IsFiniteSet(rows) /\ \A r \in rows : r.row

IInv == TypeOK /\ Table /\ Apart /\ Once /\ Places /\ ListInv /\ OwedInv

-----------------------------------------------------------------------------
(* Queues.  A concatenation has the elements of both parts, in order.      *)
LEMMA ConcatElements ==
  ASSUME NEW s \in Seq(Entry), NEW t \in Seq(Entry)
  PROVE /\ s \o t \in Seq(Entry)
        /\ DOMAIN s = 1 .. Len(s) /\ DOMAIN t = 1 .. Len(t)
        /\ DOMAIN (s \o t) = 1 .. Len(s) + Len(t)
        /\ \A i \in 1 .. Len(s) : (s \o t)[i] = s[i]
        /\ \A i \in 1 .. Len(t) : (s \o t)[Len(s) + i] = t[i]
        /\ \A i \in 1 .. Len(s) + Len(t) :
             i \in 1 .. Len(s) \/ (i - Len(s) \in 1 .. Len(t) /\ (s \o t)[i] = t[i - Len(s)])
        /\ Len(s) \in Nat /\ Len(t) \in Nat
OBVIOUS

(* The numbers in a concatenation are those of its parts. *)
LEMMA ConcatNumbers ==
  ASSUME NEW s \in Seq(Entry), NEW t \in Seq(Entry)
  PROVE Numbers(s \o t) = Numbers(s) \cup Numbers(t)
<1> DEFINE c == s \o t
<1>1. /\ DOMAIN s = 1 .. Len(s) /\ DOMAIN t = 1 .. Len(t) /\ DOMAIN c = 1 .. Len(s) + Len(t)
      /\ \A i \in 1 .. Len(s) : c[i] = s[i]
      /\ \A i \in 1 .. Len(t) : c[Len(s) + i] = t[i]
      /\ \A i \in 1 .. Len(s) + Len(t) :
           i \in 1 .. Len(s) \/ (i - Len(s) \in 1 .. Len(t) /\ c[i] = t[i - Len(s)])
      /\ Len(s) \in Nat /\ Len(t) \in Nat
  BY ConcatElements
<1> HIDE DEF c
<1>2. ASSUME NEW n \in Numbers(s) PROVE n \in Numbers(c)
  <2>1. PICK i \in DOMAIN s : ~s[i].row /\ s[i].n = n
    BY DEF Numbers
  <2>2. i \in DOMAIN c /\ c[i] = s[i]
    BY <1>1, <2>1
  <2> QED BY <2>1, <2>2 DEF Numbers
<1>3. ASSUME NEW n \in Numbers(t) PROVE n \in Numbers(c)
  <2>1. PICK i \in DOMAIN t : ~t[i].row /\ t[i].n = n
    BY DEF Numbers
  <2>2. Len(s) + i \in DOMAIN c /\ c[Len(s) + i] = t[i]
    BY <1>1, <2>1
  <2> QED BY <2>1, <2>2 DEF Numbers
<1>4. ASSUME NEW n \in Numbers(c) PROVE n \in Numbers(s) \cup Numbers(t)
  <2>1. PICK i \in DOMAIN c : ~c[i].row /\ c[i].n = n
    BY DEF Numbers
  <2>2. CASE i \in 1 .. Len(s)
    BY <1>1, <2>1, <2>2 DEF Numbers
  <2>3. CASE i - Len(s) \in 1 .. Len(t) /\ c[i] = t[i - Len(s)]
    BY <1>1, <2>1, <2>3 DEF Numbers
  <2> QED BY <1>1, <2>1, <2>2, <2>3
<1> QED BY <1>2, <1>3, <1>4 DEF c

(* No number is twice in a concatenation of parts that share none. *)
LEMMA ConcatOnce ==
  ASSUME NEW s \in Seq(Entry), NEW t \in Seq(Entry),
         NoneTwice(s), NoneTwice(t), Numbers(s) \cap Numbers(t) = {}
  PROVE NoneTwice(s \o t)
<1> DEFINE c == s \o t
<1>1. /\ DOMAIN s = 1 .. Len(s) /\ DOMAIN t = 1 .. Len(t) /\ DOMAIN c = 1 .. Len(s) + Len(t)
      /\ \A i \in 1 .. Len(s) : c[i] = s[i]
      /\ \A i \in 1 .. Len(s) + Len(t) :
           i \in 1 .. Len(s) \/ (i - Len(s) \in 1 .. Len(t) /\ c[i] = t[i - Len(s)])
      /\ Len(s) \in Nat /\ Len(t) \in Nat
  BY ConcatElements
<1> HIDE DEF c
<1>2. SUFFICES ASSUME NEW i \in DOMAIN c, NEW j \in DOMAIN c,
                      ~c[i].row, ~c[j].row, c[i].n = c[j].n
               PROVE i = j
  BY DEF NoneTwice, c
<1>3. ASSUME NEW k \in DOMAIN c, ~c[k].row, k \in 1 .. Len(s)
      PROVE c[k].n \in Numbers(s)
  BY <1>1, <1>3 DEF Numbers
<1>4. ASSUME NEW k \in DOMAIN c, ~c[k].row, k - Len(s) \in 1 .. Len(t), c[k] = t[k - Len(s)]
      PROVE c[k].n \in Numbers(t)
  BY <1>1, <1>4 DEF Numbers
<1>5. CASE i \in 1 .. Len(s) /\ j \in 1 .. Len(s)
  BY <1>1, <1>2, <1>5 DEF NoneTwice
<1>6. CASE i \notin 1 .. Len(s) /\ j \notin 1 .. Len(s)
  <2>1. /\ i - Len(s) \in DOMAIN t /\ j - Len(s) \in DOMAIN t
        /\ c[i] = t[i - Len(s)] /\ c[j] = t[j - Len(s)]
    BY <1>1, <1>6
  <2>2. i - Len(s) = j - Len(s)
    BY <1>2, <2>1 DEF NoneTwice
  <2> QED BY <1>1, <2>2
<1>7. CASE i \in 1 .. Len(s) /\ j \notin 1 .. Len(s)
  BY <1>1, <1>2, <1>3, <1>4, <1>7
<1>8. CASE i \notin 1 .. Len(s) /\ j \in 1 .. Len(s)
  BY <1>1, <1>2, <1>3, <1>4, <1>8
<1> QED BY <1>5, <1>6, <1>7, <1>8

(* The first element of a list is set apart from the others. *)
LEMMA TailNumbers ==
  ASSUME NEW s \in Seq(Entry), s # <<>>
  PROVE /\ Head(s) \in Entry /\ Tail(s) \in Seq(Entry)
        /\ Numbers(Tail(s)) \subseteq Numbers(s)
        /\ ~Head(s).row => Head(s).n \in Numbers(s)
        /\ \A n \in Numbers(s) : n \in Numbers(Tail(s)) \/ (~Head(s).row /\ n = Head(s).n)
        /\ NoneTwice(s) => NoneTwice(Tail(s))
        /\ NoneTwice(s) /\ ~Head(s).row => Head(s).n \notin Numbers(Tail(s))
<1> DEFINE t == Tail(s)
<1>1. /\ t \in Seq(Entry) /\ Head(s) \in Entry /\ Head(s) = s[1]
      /\ DOMAIN s = 1 .. Len(s) /\ DOMAIN t = 1 .. Len(s) - 1
      /\ \A i \in 1 .. Len(s) - 1 : t[i] = s[i + 1]
      /\ Len(s) \in Nat /\ Len(s) > 0
  OBVIOUS
<1> HIDE DEF t
<1>2. \A i \in DOMAIN t : i + 1 \in DOMAIN s /\ t[i] = s[i + 1] /\ i + 1 # 1
  BY <1>1
<1>3. Numbers(t) \subseteq Numbers(s)
  BY <1>2 DEF Numbers
<1>4. ~Head(s).row => Head(s).n \in Numbers(s)
  BY <1>1 DEF Numbers
<1>5. ASSUME NEW n \in Numbers(s) PROVE n \in Numbers(t) \/ (~Head(s).row /\ n = Head(s).n)
  <2>1. PICK i \in DOMAIN s : ~s[i].row /\ s[i].n = n
    BY DEF Numbers
  <2>2. CASE i = 1
    BY <1>1, <2>1, <2>2
  <2>3. CASE i # 1
    <3>1. i - 1 \in DOMAIN t /\ t[i - 1] = s[i]
      BY <1>1, <2>1, <2>3
    <3> QED BY <2>1, <3>1 DEF Numbers
  <2> QED BY <2>2, <2>3
<1>6. NoneTwice(s) => NoneTwice(t)
  BY <1>1, <1>2 DEF NoneTwice
<1>7. NoneTwice(s) /\ ~Head(s).row => Head(s).n \notin Numbers(t)
  BY <1>1, <1>2 DEF NoneTwice, Numbers
<1> QED BY <1>1, <1>3, <1>4, <1>5, <1>6, <1>7 DEF t

(* A list of rows has no numbers of the local queue. *)
LEMMA RowsNumbers ==
  ASSUME NEW s \in Seq(Entry), \A i \in DOMAIN s : s[i].row
  PROVE Numbers(s) = {} /\ NoneTwice(s)
BY DEF Numbers, NoneTwice

LEMMA EmptyNumbers == Numbers(<<>>) = {} /\ NoneTwice(<<>>)
BY DEF Numbers, NoneTwice

(* The sessions of a set, in any order, are a sequence of sessions. *)
LEMMA OrdersOfSessions ==
  ASSUME NEW S \in SUBSET Session, NEW q \in SetToSeqs(S)
  PROVE q \in Seq(Session)
<1>1. Cardinality(S) \in Nat
  BY FS_Subset, FS_CardinalityType, SessionAssumption
<1>2. q \in [1 .. Cardinality(S) -> S]
  BY DEF SetToSeqs
<1> QED BY <1>1, <1>2

(* The rows of the table, in any order, are a list without local numbers. *)
LEMMA OrdersOfRows ==
  ASSUME TypeOK, Table, NEW q \in SetToSeqs(rows), NEW k \in 0 .. Len(q)
  PROVE /\ SubSeq(q, 1, k) \o q \in Seq(Entry)
        /\ Numbers(SubSeq(q, 1, k) \o q) = {} /\ NoneTwice(SubSeq(q, 1, k) \o q)
<1>1. Cardinality(rows) \in Nat
  BY FS_CardinalityType DEF Table
<1>2. q \in [1 .. Cardinality(rows) -> rows]
  BY DEF SetToSeqs
<1>3. q \in Seq(Entry) /\ \A i \in DOMAIN q : q[i].row
  <2>1. rows \subseteq Entry /\ \A r \in rows : r.row
    BY DEF TypeOK, Table
  <2>2. q \in [1 .. Cardinality(rows) -> Entry]
    BY <1>2, <2>1
  <2> QED BY <1>1, <1>2, <2>1, <2>2
<1> DEFINE f == SubSeq(q, 1, k)
<1>4. f \in Seq(Entry) /\ \A i \in DOMAIN f : f[i] = q[i] /\ i \in DOMAIN q
  BY <1>3
<1> HIDE DEF f
<1>5. \A i \in DOMAIN f : f[i].row
  BY <1>3, <1>4
<1>6. Numbers(f) = {} /\ NoneTwice(f)
  BY <1>4, <1>5, RowsNumbers
<1>7. Numbers(q) = {} /\ NoneTwice(q)
  BY <1>3, RowsNumbers
<1>8. Numbers(f \o q) = Numbers(f) \cup Numbers(q)
  BY <1>3, <1>4, ConcatNumbers
<1>9. NoneTwice(f \o q)
  <2>1. Numbers(f) \cap Numbers(q) = {}
    BY <1>6
  <2> QED BY <1>3, <1>4, <1>6, <1>7, <2>1, ConcatOnce
<1>10. f \o q \in Seq(Entry)
  BY <1>3, <1>4, ConcatElements
<1>11. Numbers(f \o q) = {}
  BY <1>6, <1>7, <1>8
<1> QED BY <1>9, <1>10, <1>11 DEF f

-----------------------------------------------------------------------------
(* What a message of a gateway may do to the local queue. *)
Asks ==
  \/ \E q \in Seq(Session) : AddAborts(q)
  \/ \E x \in Subscriber : AddRefresh(x)
  \/ UNCHANGED localVars

LEMMA HandlerAsks ==
  ASSUME TypeOK, NEW s \in Session, Handler(s)
  PROVE Asks /\ UNCHANGED <<connected, tableVars, threadVars, rar, stop, restarts>>
<1>1. CASE Initial(s)
  <2>1. CASE Look4StalledSession
    <3> DEFINE S == {t \in cache \cap Core : AddressOf[t] = AddressOf[s]}
    <3>1. \E q \in SetToSeqs(S) : AddAborts(q)
      BY <1>1, <2>1 DEF Initial
    <3>2. S \in SUBSET Session
      BY SessionAssumption
    <3> HIDE DEF S
    <3>3. \E q \in Seq(Session) : AddAborts(q)
      BY <3>1, <3>2, OrdersOfSessions
    <3> QED BY <1>1, <3>3 DEF Initial, Asks
  <2>2. CASE ~Look4StalledSession
    BY <1>1, <2>2 DEF Initial, Asks
  <2> QED BY <2>1, <2>2, <1>1 DEF Initial
<1>2. CASE Operate(s)
  BY <1>2, SessionAssumption DEF Operate, Asks
<1>3. CASE Update(s)
  BY <1>3, SessionAssumption DEF Update, Asks
<1>4. CASE UpdateUnknown(s)
  BY <1>4 DEF UpdateUnknown, Asks
<1>5. CASE AskUnknown(s)
  <2>1. <<s>> \in Seq(Session)
    OBVIOUS
  <2> QED BY <1>5, <2>1 DEF AskUnknown, Asks
<1>6. CASE Terminate(s)
  <2>1. PICK T \in SUBSET {t \in Procera : s \in Core /\ AddressOf[t] = AddressOf[s] /\ held[t] # "new"} :
          \E q \in SetToSeqs(T) : AddAborts(q)
    BY <1>6 DEF Terminate
  <2>2. T \in SUBSET Session
    BY SessionAssumption
  <2>3. \E q \in Seq(Session) : AddAborts(q)
    BY <2>1, <2>2, OrdersOfSessions
  <2> QED BY <1>6, <2>3 DEF Terminate, Asks
<1>7. CASE Replicate(s)
  BY <1>7 DEF Replicate, Asks
<1>8. CASE ReplicateRemoval(s)
  BY <1>8 DEF ReplicateRemoval, Asks
<1> QED BY <1>1, <1>2, <1>3, <1>4, <1>5, <1>6, <1>7, <1>8 DEF Handler

(* New requests take the numbers after the last one. *)
LEMMA AbortsAdded ==
  ASSUME TypeOK, NEW q \in Seq(Session), AddAborts(q)
  PROVE /\ aborts' \in Seq(Entry) /\ refreshes' = refreshes
        /\ asked' \in Nat /\ asked <= asked'
        /\ Numbers(aborts') = Numbers(aborts) \cup (asked + 1 .. asked')
        /\ NoneTwice(aborts) /\ Numbers(aborts) \subseteq 1 .. asked => NoneTwice(aborts')
<1> DEFINE r(i) == [n |-> asked + i, row |-> FALSE,
                    request |-> [type |-> "session_id", id |-> q[i], action |-> "abort_session"]]
           e == [i \in DOMAIN q |-> r(i)]
<1>1. /\ aborts' = aborts \o e /\ asked' = asked + Len(q) /\ refreshes' = refreshes
      /\ aborts \in Seq(Entry) /\ asked \in Nat /\ Len(q) \in Nat /\ DOMAIN q = 1 .. Len(q)
  BY DEF AddAborts, TypeOK
<1>2. ASSUME NEW i \in 1 .. Len(q) PROVE r(i) \in Entry /\ r(i).n = asked + i /\ r(i).row = FALSE
  <2>1. [type |-> "session_id", id |-> q[i], action |-> "abort_session"] \in Request
    BY <1>1 DEF Request, Action
  <2> QED BY <1>1, <2>1 DEF Entry
<1> HIDE DEF r
<1>3. /\ e \in Seq(Entry) /\ DOMAIN e = 1 .. Len(q)
      /\ \A i \in 1 .. Len(q) : e[i].n = asked + i /\ e[i].row = FALSE
  <2>1. e \in [1 .. Len(q) -> Entry] /\ \A i \in 1 .. Len(q) : e[i] = r(i)
    BY <1>1, <1>2
  <2> HIDE DEF e
  <2>2. e \in Seq(Entry) /\ DOMAIN e = 1 .. Len(q)
    BY <1>1, <2>1
  <2>3. ASSUME NEW i \in 1 .. Len(q) PROVE e[i].n = asked + i /\ e[i].row = FALSE
    <3>1. e[i] = r(i)
      BY <2>1
    <3> QED BY <1>2, <3>1
  <2> QED BY <2>2, <2>3
<1> HIDE DEF e
<1>4. Numbers(e) = asked + 1 .. asked'
  <2>1. ASSUME NEW n \in Numbers(e) PROVE n \in asked + 1 .. asked'
    <3>1. PICK i \in DOMAIN e : e[i].n = n
      BY DEF Numbers
    <3> QED BY <1>1, <1>3, <3>1
  <2>2. ASSUME NEW n \in asked + 1 .. asked' PROVE n \in Numbers(e)
    <3>1. n - asked \in DOMAIN e /\ e[n - asked].n = n /\ ~e[n - asked].row
      BY <1>1, <1>3
    <3> QED BY <3>1 DEF Numbers
  <2> QED BY <2>1, <2>2
<1>5. NoneTwice(e)
  BY <1>1, <1>3 DEF NoneTwice
<1>6. Numbers(aborts') = Numbers(aborts) \cup (asked + 1 .. asked')
  BY <1>1, <1>3, <1>4, ConcatNumbers
<1>7. aborts' \in Seq(Entry)
  BY <1>1, <1>3
<1>8. ASSUME NoneTwice(aborts), Numbers(aborts) \subseteq 1 .. asked PROVE NoneTwice(aborts')
  <2>1. Numbers(aborts) \cap Numbers(e) = {}
    BY <1>1, <1>4, <1>8
  <2> QED BY <1>1, <1>3, <1>5, <1>8, <2>1, ConcatOnce
<1> QED BY <1>1, <1>6, <1>7, <1>8

LEMMA RefreshAdded ==
  ASSUME TypeOK, NEW x \in Subscriber, AddRefresh(x)
  PROVE /\ refreshes' \in Seq(Entry) /\ aborts' = aborts
        /\ asked' = asked + 1 /\ asked \in Nat
        /\ Numbers(refreshes') = Numbers(refreshes) \cup {asked + 1}
        /\ NoneTwice(refreshes) /\ Numbers(refreshes) \subseteq 1 .. asked => NoneTwice(refreshes')
<1> DEFINE r == [n |-> asked + 1, row |-> FALSE,
                 request |-> [type |-> "subscriber_id", id |-> x, action |-> "none"]]
           e == <<r>>
<1>1. /\ refreshes' = Append(refreshes, r) /\ asked' = asked + 1 /\ aborts' = aborts
      /\ refreshes \in Seq(Entry) /\ asked \in Nat
  BY DEF AddRefresh, TypeOK
<1>2. r \in Entry /\ r.n = asked + 1 /\ r.row = FALSE
  <2>1. [type |-> "subscriber_id", id |-> x, action |-> "none"] \in Request
    BY DEF Request, Action
  <2> QED BY <1>1, <2>1 DEF Entry
<1> HIDE DEF r
<1>3. e \in Seq(Entry) /\ DOMAIN e = {1} /\ e[1] = r
  BY <1>2
<1>4. Numbers(e) = {asked + 1} /\ NoneTwice(e)
  BY <1>2, <1>3 DEF Numbers, NoneTwice
<1>5. refreshes' = refreshes \o e
  BY <1>1, <1>2
<1> HIDE DEF e
<1>6. Numbers(refreshes') = Numbers(refreshes) \cup {asked + 1}
  BY <1>1, <1>3, <1>4, <1>5, ConcatNumbers
<1>7. refreshes' \in Seq(Entry)
  BY <1>1, <1>3, <1>5
<1>8. ASSUME NoneTwice(refreshes), Numbers(refreshes) \subseteq 1 .. asked PROVE NoneTwice(refreshes')
  <2>1. Numbers(refreshes) \cap Numbers(e) = {}
    BY <1>1, <1>4, <1>8
  <2> QED BY <1>1, <1>3, <1>4, <1>5, <1>8, <2>1, ConcatOnce
<1> QED BY <1>1, <1>6, <1>7, <1>8

LEMMA AsksType ==
  ASSUME TypeOK, Asks
  PROVE aborts' \in Seq(Entry) /\ refreshes' \in Seq(Entry) /\ asked' \in Nat
<1>1. CASE \E q \in Seq(Session) : AddAborts(q)
  BY <1>1, AbortsAdded DEF TypeOK
<1>2. CASE \E x \in Subscriber : AddRefresh(x)
  BY <1>2, RefreshAdded DEF TypeOK
<1>3. CASE UNCHANGED localVars
  BY <1>3 DEF TypeOK, localVars
<1> QED BY <1>1, <1>2, <1>3 DEF Asks

LEMMA AsksStep ==
  ASSUME TypeOK, Apart, Once, Places, Asks, UNCHANGED <<list, handled, stop>>
  PROVE Apart' /\ Once' /\ Places'
<1> USE DEF Apart, Once, Places, Given
<1>1. CASE \E q \in Seq(Session) : AddAborts(q)
  <2>1. PICK q \in Seq(Session) : AddAborts(q)
    BY <1>1
  <2>2. /\ refreshes' = refreshes /\ asked \in Nat /\ asked' \in Nat /\ asked <= asked'
        /\ Numbers(aborts') = Numbers(aborts) \cup (asked + 1 .. asked')
        /\ NoneTwice(aborts')
    BY <2>1, AbortsAdded DEF TypeOK
  <2> HIDE DEF Numbers
  <2> QED BY <2>2
<1>2. CASE \E x \in Subscriber : AddRefresh(x)
  <2>1. /\ aborts' = aborts /\ asked \in Nat /\ asked' = asked + 1
        /\ Numbers(refreshes') = Numbers(refreshes) \cup {asked + 1}
        /\ NoneTwice(refreshes')
    BY <1>2, RefreshAdded
  <2> QED BY <2>1
<1>3. CASE UNCHANGED localVars
  BY <1>3 DEF localVars
<1> QED BY <1>1, <1>2, <1>3 DEF Asks

-----------------------------------------------------------------------------
(* The types, action by action.                                            *)
LEMMA HandlerType ==
  ASSUME TypeOK, NEW s \in Session, Handler(s)
  PROVE TypeOK'
<1> USE DEF Goto, Insert, Forget, cacheVars, gatewayVars
<1>1. /\ aborts' \in Seq(Entry) /\ refreshes' \in Seq(Entry) /\ asked' \in Nat
      /\ UNCHANGED <<connected, tableVars, threadVars, rar, stop, restarts>>
  BY HandlerAsks, AsksType
<1>2. /\ held' \in [Session -> {"new", "open", "closed"}]
      /\ ccr' \in [Session -> {"none", "initial", "unknown"}]
  <2> USE DEF TypeOK
  <2>1. CASE Initial(s) BY <2>1 DEF Initial
  <2>2. CASE Operate(s) BY <2>2 DEF Operate
  <2>3. CASE Update(s) BY <2>3 DEF Update
  <2>4. CASE UpdateUnknown(s) BY <2>4 DEF UpdateUnknown
  <2>5. CASE AskUnknown(s) BY <2>5 DEF AskUnknown
  <2>6. CASE Terminate(s) BY <2>6 DEF Terminate
  <2>7. CASE Replicate(s) BY <2>7 DEF Replicate
  <2>8. CASE ReplicateRemoval(s) BY <2>8 DEF ReplicateRemoval
  <2> QED BY <2>1, <2>2, <2>3, <2>4, <2>5, <2>6, <2>7, <2>8 DEF Handler
<1>3. /\ cache' \subseteq Session /\ named' \subseteq cache' /\ known' \subseteq Subscriber
      /\ {OwnerOf[t] : t \in named'} \subseteq known'
  <2>0. OwnerOf[s] \in Subscriber
    BY SessionAssumption
  <2> USE DEF TypeOK
  <2>1. CASE Initial(s) BY <2>0, <2>1 DEF Initial
  <2>2. CASE Operate(s) BY <2>2 DEF Operate
  <2>3. CASE Update(s) BY <2>3 DEF Update
  <2>4. CASE UpdateUnknown(s) BY <2>4 DEF UpdateUnknown
  <2>5. CASE AskUnknown(s) BY <2>5 DEF AskUnknown
  <2>6. CASE Terminate(s) BY <2>6 DEF Terminate
  <2>7. CASE Replicate(s) BY <2>0, <2>7 DEF Replicate
  <2>8. CASE ReplicateRemoval(s) BY <2>8 DEF ReplicateRemoval
  <2> QED BY <2>1, <2>2, <2>3, <2>4, <2>5, <2>6, <2>7, <2>8 DEF Handler
<1> QED BY <1>1, <1>2, <1>3 DEF TypeOK, tableVars, threadVars, recordVars

(* What messages, answers, peers and other programs change. *)
LEMMA SurroundingsType ==
  ASSUME TypeOK, Surroundings
  PROVE TypeOK'
<1> USE DEF cacheVars, gatewayVars, localVars, tableVars, threadVars, recordVars
<1>1. CASE \E s \in Session : Handler(s)
  BY <1>1, HandlerType
<1>2. CASE \E p \in Peer : Validate(p)
  BY <1>2 DEF Validate, TypeOK
<1>3. CASE \E m \in rar : Answered(m)
  <2>1. PICK m \in rar : Answered(m)
    BY <1>3
  <2>2. m[1] \in Session
    BY <2>1 DEF TypeOK
  <2>3. CASE held' = [held EXCEPT ![m[1]] = "closed"] /\ Forget(m[1])
    BY <2>1, <2>2, <2>3 DEF Answered, Forget, TypeOK
  <2>4. CASE UNCHANGED <<held, cacheVars>>
    BY <2>1, <2>4 DEF Answered, TypeOK
  <2> QED BY <2>1, <2>3, <2>4 DEF Answered
<1>4. CASE \E request \in RowRequest : AddRow(request)
  <2>1. PICK request \in RowRequest : AddRow(request)
    BY <1>4
  <2>2. [n |-> added + 1, row |-> TRUE, request |-> request] \in Entry
    BY RowAssumption DEF TypeOK, Entry
  <2>3. rows' \subseteq Entry /\ added' \in Nat
    <3>1. rows \subseteq Entry /\ added \in Nat
      BY DEF TypeOK
    <3> DEFINE r == [n |-> added + 1, row |-> TRUE, request |-> request]
    <3>2. rows' = rows \cup {r} /\ added' = added + 1
      BY <2>1 DEF AddRow
    <3>3. r \in Entry
      BY <2>2
    <3> HIDE DEF r
    <3> QED BY <3>1, <3>2, <3>3
  <2> QED BY <2>1, <2>3 DEF AddRow, TypeOK
<1> QED BY <1>1, <1>2, <1>3, <1>4 DEF Surroundings

(* One request at a time. *)
LEMMA FinishType ==
  ASSUME TypeOK, Finish, rows' \subseteq rows
  PROVE TypeOK'
<1> USE DEF cacheVars, gatewayVars, localVars, tableVars, threadVars, recordVars
<1>1. list \in Seq(Entry) /\ list # <<>>
  BY DEF Finish, TypeOK
<1>2. Tail(list) \in Seq(Entry) /\ Head(list) \in Entry
  BY <1>1, TailNumbers
<1>3. Head(list).n \in Nat
  BY <1>2 DEF Entry
<1>4. handled' \subseteq Nat
  BY <1>3 DEF Finish, TypeOK
<1> QED BY <1>2, <1>4 DEF Finish, TypeOK, PC

LEMMA PassEndsType ==
  ASSUME TypeOK, EndPass, pc \in {"rows", "next"}
  PROVE TypeOK'
<1> USE DEF cacheVars, gatewayVars, localVars, tableVars, threadVars, recordVars
<1>1. /\ list' = <<>> /\ conn' = FALSE /\ pc' = "waiting"
      /\ UNCHANGED <<held, ccr, cache, named, known, connected, aborts, refreshes, asked,
                     rows, added, handled, left, at, failed, owed, rar, stop, restarts>>
  BY DEF EndPass
<1>2. list' \in Seq(Entry)
  BY <1>1
<1>3. at' = NoSession
  BY <1>1 DEF TypeOK
<1>4. pc' \in PC /\ (pc' = "rules" <=> at' # NoSession) /\ pc' \notin {"session", "rules"}
  BY <1>1, <1>3 DEF PC
<1> QED BY <1>1, <1>2, <1>4 DEF TypeOK

LEMMA ThreadType ==
  ASSUME TypeOK, Table, Thread
  PROVE TypeOK'
<1> USE DEF cacheVars, gatewayVars, localVars, tableVars, threadVars, recordVars
<1>1. CASE TakeConnection
  BY <1>1 DEF TakeConnection, TypeOK, PC
<1>2. CASE GoWithout
  BY <1>2 DEF GoWithout, TypeOK, PC
<1>3. CASE LoadRows
  <2>1. list' \in Seq(Entry)
    BY <1>3, OrdersOfRows DEF LoadRows
  <2> QED BY <1>3, <2>1 DEF LoadRows, TypeOK, PC
<1>4. CASE LoadRowsFails
  BY <1>4, PassEndsType DEF LoadRowsFails
<1>5. CASE LoadLocal
  <2>1. list' \in Seq(Entry)
    BY <1>5 DEF LoadLocal, TypeOK
  <2> QED BY <1>5, <2>1 DEF LoadLocal, TypeOK, PC
<1>6. CASE FromCache
  <2>1. Head(list) \in Entry /\ About(Head(list).request) \subseteq Session
    BY <1>6, TailNumbers DEF FromCache, TypeOK, About
  <2>2. Head(list).request.type = "session_id" => Head(list).request.id \in Session
    BY <2>1 DEF Entry, Request
  <2> QED BY <1>6, <2>1, <2>2 DEF FromCache, Begin, TypeOK, PC
<1>7. CASE OperateRules
  <2>1. at \in Session
    BY <1>7 DEF OperateRules, TypeOK
  <2> QED BY <1>7, <2>1 DEF OperateRules, Treated, TypeOK, PC
<1>8. ASSUME NEW x \in Subscriber, FromDatabase(x) \/ FromNowhere(x) PROVE TypeOK'
  <2>1. About(Head(list).request) \subseteq Session
    BY DEF TypeOK, About
  <2>2. CASE FromDatabase(x)
    BY <2>1, <2>2 DEF FromDatabase, Begin, TypeOK, PC
  <2>3. CASE FromNowhere(x)
    BY <2>1, <2>3 DEF FromNowhere, Begin, TypeOK, PC
  <2> QED BY <1>8, <2>2, <2>3
<1>9. ASSUME NEW s \in Session,
             SkipSession(s) \/ NotConnected(s) \/ AbortSession(s) \/ RefreshSession(s)
      PROVE TypeOK'
  <2>1. CASE SkipSession(s)
    BY <2>1 DEF SkipSession, NextSession, Treated, TypeOK, PC
  <2>2. CASE NotConnected(s)
    BY <2>2 DEF NotConnected, NextSession, TypeOK, PC
  <2>3. CASE AbortSession(s)
    BY <2>3 DEF AbortSession, NextSession, Treated, TypeOK, PC
  <2>4. CASE RefreshSession(s)
    BY <2>4, SessionAssumption DEF RefreshSession, NextSession, TypeOK, PC
  <2> QED BY <1>9, <2>1, <2>2, <2>3, <2>4
<1>10. CASE DeleteRow
  BY <1>10, FinishType DEF DeleteRow
<1>11. CASE KeepRow
  BY <1>11, FinishType DEF KeepRow
<1>12. CASE ListDone
  BY <1>12, PassEndsType DEF ListDone
<1>13. CASE End
  BY <1>13 DEF End, TypeOK, PC
<1> QED BY <1>1, <1>2, <1>3, <1>4, <1>5, <1>6, <1>7, <1>8, <1>9, <1>10, <1>11, <1>12, <1>13
        DEF Thread

LEMMA TypeStep ==
  ASSUME TypeOK, Table, [Next]_vars
  PROVE TypeOK'
<1> USE DEF cacheVars, gatewayVars, localVars, tableVars, threadVars, recordVars
<1>1. CASE Thread
  BY <1>1, ThreadType
<1>2. CASE Surroundings
  BY <1>2, SurroundingsType
<1>3. CASE Stop
  BY <1>3 DEF Stop, TypeOK
<1>4. CASE Restart
  <2>1. aborts' \in Seq(Entry) /\ refreshes' \in Seq(Entry) /\ list' \in Seq(Entry)
    BY <1>4 DEF Restart
  <2>2. named' = {} /\ {OwnerOf[s] : s \in {}} = {}
    BY <1>4 DEF Restart
  <2>3. pc' = "waiting" /\ pc' \in PC /\ at' = NoSession
    BY <1>4 DEF Restart, PC
  <2>4. /\ ccr' \in [Session -> {"none", "initial", "unknown"}]
        /\ cache' = {} /\ known' = {} /\ connected' = {} /\ left' = {} /\ rar' = {}
        /\ owed' = {} /\ handled' = {} /\ asked' = 0
        /\ ~conn' /\ ~failed' /\ ~stop' /\ restarts' = restarts + 1
        /\ conn' \in BOOLEAN /\ failed' \in BOOLEAN /\ stop' \in BOOLEAN
    BY <1>4 DEF Restart
  <2>5. /\ held' \in [Session -> {"new", "open", "closed"}]
        /\ rows' \subseteq Entry /\ added' \in Nat /\ restarts \in Nat
    BY <1>4 DEF Restart, TypeOK
  <2> QED BY <2>1, <2>2, <2>3, <2>4, <2>5 DEF TypeOK
<1>5. CASE UNCHANGED vars
  BY <1>5 DEF vars, TypeOK
<1> QED BY <1>1, <1>2, <1>3, <1>4, <1>5 DEF Next

-----------------------------------------------------------------------------
(* The requests: each in one place, under its own number.                  *)
QueueInv == Apart /\ Once /\ Places /\ ListInv

(* Nothing of the queues changes.  *)
LEMMA QueueFrame ==
  ASSUME QueueInv, UNCHANGED <<localVars, list, handled, stop>>,
         pc' \in {"waiting", "rows", "ended"} => list = <<>>,
         pc' = "local" => Numbers(list) = {}
  PROVE QueueInv'
<1>1. aborts' = aborts /\ refreshes' = refreshes /\ asked' = asked /\ list' = list
      /\ handled' = handled /\ stop' = stop
  BY DEF localVars
<1>2. Numbers(aborts)' = Numbers(aborts) /\ Numbers(refreshes)' = Numbers(refreshes)
      /\ Numbers(list)' = Numbers(list) /\ NoneTwice(aborts)' = NoneTwice(aborts)
      /\ NoneTwice(refreshes)' = NoneTwice(refreshes) /\ NoneTwice(list)' = NoneTwice(list)
  BY <1>1 DEF Numbers, NoneTwice
<1> QED BY <1>1, <1>2 DEF QueueInv, Apart, Once, Places, Given, ListInv

(* A pass ends with nothing in its list, or when the process stops. *)
LEMMA PassEndsQueue ==
  ASSUME QueueInv, EndPass, list = <<>> \/ stop
  PROVE QueueInv'
<1>1. /\ aborts' = aborts /\ refreshes' = refreshes /\ asked' = asked
      /\ list' = <<>> /\ handled' = handled /\ stop' = stop /\ pc' = "waiting"
  BY DEF EndPass, localVars
<1>2. Numbers(list') = {} /\ NoneTwice(list')
  BY <1>1, EmptyNumbers
<1>3. list = <<>> => Numbers(list) = {}
  BY EmptyNumbers
<1> HIDE DEF Numbers, NoneTwice
<1> QED BY <1>1, <1>2, <1>3 DEF QueueInv, Apart, Once, Places, Given, ListInv

(* The list gets rows only. *)
LEMMA LoadRowsQueue ==
  ASSUME TypeOK, Table, QueueInv, LoadRows
  PROVE QueueInv'
<1>1. PICK q \in SetToSeqs(rows) : \E k \in 0 .. Len(q) : list' = SubSeq(q, 1, k) \o q
  BY DEF LoadRows
<1>2. Numbers(list') = {} /\ NoneTwice(list')
  BY <1>1, OrdersOfRows
<1>3. list = <<>> /\ Numbers(list) = {}
  BY EmptyNumbers DEF LoadRows, QueueInv, ListInv
<1>4. /\ aborts' = aborts /\ refreshes' = refreshes /\ asked' = asked
      /\ handled' = handled /\ stop' = stop /\ pc' = "local"
  BY DEF LoadRows, localVars, recordVars
<1> QED BY <1>2, <1>3, <1>4 DEF QueueInv, Apart, Once, Places, Given, ListInv

(* What waits moves to the list. *)
LEMMA LoadLocalQueue ==
  ASSUME TypeOK, QueueInv, LoadLocal
  PROVE QueueInv'
<1>1. aborts \in Seq(Entry) /\ refreshes \in Seq(Entry) /\ list \in Seq(Entry)
  BY DEF TypeOK
<1>2. /\ list' = (list \o aborts) \o refreshes /\ aborts' = <<>> /\ refreshes' = <<>>
      /\ asked' = asked /\ handled' = handled /\ stop' = stop /\ pc' = "next"
  BY DEF LoadLocal
<1>3. list \o aborts \in Seq(Entry) /\ Numbers(list \o aborts) = Numbers(list) \cup Numbers(aborts)
  BY <1>1, ConcatNumbers
<1>4. NoneTwice(list \o aborts)
  BY <1>1, ConcatOnce DEF QueueInv, Apart, Once
<1> DEFINE l == list \o aborts
<1> HIDE DEF l
<1>5. Numbers(l \o refreshes) = Numbers(l) \cup Numbers(refreshes)
  BY <1>1, <1>3, ConcatNumbers DEF l
<1>6. Numbers(l) \cap Numbers(refreshes) = {}
  BY <1>3 DEF l, QueueInv, Apart
<1>7. NoneTwice(l \o refreshes)
  BY <1>1, <1>3, <1>4, <1>6, ConcatOnce DEF l, QueueInv, Once
<1>8. Numbers(list') = Numbers(list) \cup Numbers(aborts) \cup Numbers(refreshes)
      /\ NoneTwice(list')
  BY <1>2, <1>3, <1>5, <1>7 DEF l
<1>9. /\ Numbers(aborts') = {} /\ Numbers(refreshes') = {}
      /\ NoneTwice(aborts') /\ NoneTwice(refreshes')
  BY <1>2, EmptyNumbers
<1> QED BY <1>2, <1>8, <1>9 DEF QueueInv, Apart, Once, Places, Given, ListInv

(* The first request of the list is done with. *)
LEMMA FinishQueue ==
  ASSUME TypeOK, QueueInv, Finish
  PROVE QueueInv'
<1>1. list \in Seq(Entry) /\ list # <<>>
  BY DEF Finish, TypeOK
<1>2. /\ aborts' = aborts /\ refreshes' = refreshes /\ asked' = asked /\ stop' = stop
      /\ pc' = "next" /\ list' = Tail(list)
      /\ handled' = IF Head(list).row THEN handled ELSE handled \cup {Head(list).n}
  BY DEF Finish, localVars
<1>3. Head(list).row \in BOOLEAN
  BY <1>1, TailNumbers DEF Entry
<1> DEFINE n == Head(list).n
<1>4. CASE Head(list).row
  <2>1. handled' = handled /\ Numbers(list') = Numbers(list) /\ NoneTwice(list')
    BY <1>1, <1>2, <1>4, TailNumbers DEF QueueInv, Once
  <2> QED BY <1>2, <2>1 DEF QueueInv, Apart, Once, Places, Given, ListInv
<1>5. CASE ~Head(list).row
  <2>1. /\ handled' = handled \cup {n} /\ n \in Numbers(list) /\ n \notin Numbers(list')
        /\ Numbers(list) = Numbers(list') \cup {n} /\ NoneTwice(list')
    BY <1>1, <1>2, <1>5, TailNumbers DEF QueueInv, Once
  <2> HIDE DEF n
  <2> QED BY <1>2, <2>1 DEF QueueInv, Apart, Once, Places, Given, ListInv
<1> QED BY <1>3, <1>4, <1>5

LEMMA ThreadQueue ==
  ASSUME TypeOK, Table, QueueInv, Thread
  PROVE QueueInv'
<1> USE DEF localVars, threadVars, recordVars
<1>1. CASE TakeConnection
  <2>1. list = <<>>
    BY <1>1 DEF TakeConnection, QueueInv, ListInv
  <2> QED BY <1>1, <2>1, QueueFrame DEF TakeConnection
<1>2. CASE GoWithout
  <2>1. list = <<>> /\ Numbers(list) = {}
    BY <1>2, EmptyNumbers DEF GoWithout, QueueInv, ListInv
  <2> QED BY <1>2, <2>1, QueueFrame DEF GoWithout
<1>3. CASE LoadRows
  BY <1>3, LoadRowsQueue
<1>4. CASE LoadRowsFails
  <2>1. list = <<>>
    BY <1>4 DEF LoadRowsFails, QueueInv, ListInv
  <2> QED BY <1>4, <2>1, PassEndsQueue DEF LoadRowsFails
<1>5. CASE LoadLocal
  BY <1>5, LoadLocalQueue
<1>6. CASE FromCache
  BY <1>6, QueueFrame DEF FromCache, Begin
<1>7. CASE OperateRules
  BY <1>7, QueueFrame DEF OperateRules, Treated
<1>8. ASSUME NEW x \in Subscriber, FromDatabase(x) \/ FromNowhere(x) PROVE QueueInv'
  BY <1>8, QueueFrame DEF FromDatabase, FromNowhere, Begin
<1>9. ASSUME NEW s \in Session,
             SkipSession(s) \/ NotConnected(s) \/ AbortSession(s) \/ RefreshSession(s)
      PROVE QueueInv'
  BY <1>9, QueueFrame
     DEF SkipSession, NotConnected, AbortSession, RefreshSession, NextSession, Treated
<1>10. CASE DeleteRow
  BY <1>10, FinishQueue DEF DeleteRow
<1>11. CASE KeepRow
  BY <1>11, FinishQueue DEF KeepRow
<1>12. CASE ListDone
  BY <1>12, PassEndsQueue DEF ListDone
<1>13. CASE End
  <2>1. list = <<>>
    BY <1>13 DEF End, QueueInv, ListInv
  <2> QED BY <1>13, <2>1, QueueFrame DEF End
<1> QED BY <1>1, <1>2, <1>3, <1>4, <1>5, <1>6, <1>7, <1>8, <1>9, <1>10, <1>11, <1>12, <1>13
        DEF Thread

LEMMA QueueStep ==
  ASSUME TypeOK, Table, QueueInv, [Next]_vars
  PROVE QueueInv'
<1> USE DEF localVars, threadVars, recordVars
<1>1. CASE Thread
  BY <1>1, ThreadQueue
<1>2. ASSUME NEW s \in Session, Handler(s) PROVE QueueInv'
  <2>1. Asks /\ UNCHANGED <<list, handled, stop, pc>>
    BY <1>2, HandlerAsks
  <2>2. Apart' /\ Once' /\ Places'
    BY <2>1, AsksStep DEF QueueInv
  <2>3. Numbers(list)' = Numbers(list)
    BY <2>1 DEF Numbers
  <2> QED BY <2>1, <2>2, <2>3 DEF QueueInv, ListInv
<1>3. CASE \E p \in Peer : Validate(p)
  BY <1>3, QueueFrame DEF Validate, QueueInv, ListInv
<1>4. CASE \E m \in rar : Answered(m)
  BY <1>4, QueueFrame DEF Answered, QueueInv, ListInv
<1>5. CASE \E request \in RowRequest : AddRow(request)
  BY <1>5, QueueFrame DEF AddRow, QueueInv, ListInv
<1>6. CASE Stop
  <2>1. /\ aborts' = aborts /\ refreshes' = refreshes /\ asked' = asked /\ list' = list
        /\ handled' = handled /\ stop' /\ pc' = pc
    BY <1>6 DEF Stop
  <2>2. Numbers(aborts)' = Numbers(aborts) /\ Numbers(refreshes)' = Numbers(refreshes)
        /\ Numbers(list)' = Numbers(list) /\ NoneTwice(aborts)' = NoneTwice(aborts)
        /\ NoneTwice(refreshes)' = NoneTwice(refreshes) /\ NoneTwice(list)' = NoneTwice(list)
    BY <2>1 DEF Numbers, NoneTwice
  <2> QED BY <2>1, <2>2 DEF QueueInv, Apart, Once, Places, Given, ListInv
<1>7. CASE Restart
  <2>1. /\ aborts' = <<>> /\ refreshes' = <<>> /\ list' = <<>> /\ handled' = {}
        /\ asked' = 0 /\ pc' = "waiting"
    BY <1>7 DEF Restart
  <2>2. /\ Numbers(aborts)' = {} /\ Numbers(refreshes)' = {} /\ Numbers(list)' = {}
        /\ NoneTwice(aborts)' /\ NoneTwice(refreshes)' /\ NoneTwice(list)'
    BY <2>1, EmptyNumbers
  <2> QED BY <2>1, <2>2 DEF QueueInv, Apart, Once, Places, Given, ListInv
<1>8. CASE UNCHANGED vars
  BY <1>8, QueueFrame DEF vars, QueueInv, ListInv
<1> QED BY <1>1, <1>2, <1>3, <1>4, <1>5, <1>6, <1>7, <1>8 DEF Next, Surroundings

-----------------------------------------------------------------------------
(* The rows, and the sessions the request in hand is still to reach.       *)
LEMMA TableStep ==
  ASSUME Table, [Next]_vars
  PROVE Table'
<1>1. CASE \E request \in RowRequest : AddRow(request)
  <2>1. PICK request \in RowRequest : AddRow(request)
    BY <1>1
  <2> DEFINE r == [n |-> added + 1, row |-> TRUE, request |-> request]
  <2>2. rows' = rows \cup {r} /\ r.row
    BY <2>1 DEF AddRow
  <2> HIDE DEF r
  <2>3. IsFiniteSet(rows \cup {r})
    BY FS_AddElement DEF Table
  <2> QED BY <2>2, <2>3 DEF Table
<1>2. ASSUME rows' \subseteq rows PROVE Table'
  BY <1>2, FS_Subset DEF Table
<1>3. CASE Thread
  BY <1>2, <1>3
     DEF Thread, TakeConnection, GoWithout, LoadRows, LoadRowsFails, EndPass, LoadLocal,
         FromCache, FromDatabase, FromNowhere, Begin, SkipSession, NotConnected, AbortSession,
         RefreshSession, OperateRules, Treated, DeleteRow, KeepRow, ListDone, End, tableVars
<1>4. ASSUME NEW s \in Session, Handler(s) PROVE Table'
  BY <1>2, <1>4
     DEF Handler, Initial, Operate, Update, UpdateUnknown, AskUnknown, Terminate, Replicate,
         ReplicateRemoval, tableVars
<1>5. CASE (\E p \in Peer : Validate(p)) \/ (\E m \in rar : Answered(m)) \/ Stop \/ Restart
  BY <1>2, <1>5 DEF Validate, Answered, Stop, Restart, tableVars
<1>6. CASE UNCHANGED vars
  BY <1>2, <1>6 DEF vars, tableVars
<1> QED BY <1>1, <1>3, <1>4, <1>5, <1>6 DEF Next, Surroundings

(* Where the request in hand does not move on, what is owed stays. *)
LEMMA OwedFrame ==
  ASSUME OwedInv, UNCHANGED <<left, at, owed>>, pc' \in {"session", "rules"} \/ pc' = pc
  PROVE OwedInv'
BY DEF OwedInv

LEMMA OwedStep ==
  ASSUME TypeOK, OwedInv, [Next]_vars
  PROVE OwedInv'
<1> USE DEF threadVars, recordVars
<1>1. CASE TakeConnection \/ GoWithout \/ LoadRows \/ LoadRowsFails \/ LoadLocal \/ ListDone \/ End
  BY <1>1 DEF OwedInv, TakeConnection, GoWithout, LoadRows, LoadRowsFails, ListDone, EndPass,
              LoadLocal, End
<1>2. CASE FromCache
  <2>1. Head(list).request.type = "session_id" =>
          About(Head(list).request) \subseteq {Head(list).request.id}
    BY DEF About
  <2> QED BY <1>2, <2>1 DEF FromCache, Begin, OwedInv
<1>3. ASSUME NEW x \in Subscriber, FromDatabase(x) \/ FromNowhere(x) PROVE OwedInv'
  <2>1. AskDatabase(x)
    BY <1>3 DEF FromDatabase, FromNowhere
  <2>2. \A s \in named : OwnerOf[s] \in known
    BY DEF TypeOK
  <2>3. About(Head(list).request) = {}
    BY <2>1, <2>2 DEF AskDatabase, About
  <2> QED BY <1>3, <2>3 DEF FromDatabase, FromNowhere, Begin, OwedInv
<1>4. ASSUME NEW s \in Session, SkipSession(s) \/ AbortSession(s) PROVE OwedInv'
  <2>1. pc = "session" /\ at = NoSession
    BY <1>4 DEF SkipSession, AbortSession, NextSession, TypeOK
  <2> QED BY <1>4, <2>1 DEF SkipSession, AbortSession, Treated, OwedInv
<1>5. ASSUME NEW s \in Session, NotConnected(s) PROVE OwedInv'
  BY <1>5, OwedFrame DEF NotConnected
<1>6. ASSUME NEW s \in Session, RefreshSession(s) PROVE OwedInv'
  <2>1. at = NoSession /\ s # NoSession
    BY <1>6, SessionAssumption DEF RefreshSession, NextSession, TypeOK
  <2> QED BY <1>6, <2>1 DEF RefreshSession, OwedInv
<1>7. CASE OperateRules
  BY <1>7 DEF OperateRules, Treated, OwedInv
<1>8. CASE DeleteRow \/ KeepRow
  BY <1>8 DEF DeleteRow, KeepRow, Finish, OwedInv
<1>9. CASE Surroundings
  <2>1. ASSUME NEW s \in Session, Handler(s) PROVE OwedInv'
    BY <2>1, HandlerAsks, OwedFrame
  <2>2. CASE \E p \in Peer : Validate(p)
    BY <2>2, OwedFrame DEF Validate
  <2>3. CASE \E m \in rar : Answered(m)
    BY <2>3, OwedFrame DEF Answered
  <2>4. CASE \E request \in RowRequest : AddRow(request)
    BY <2>4, OwedFrame DEF AddRow
  <2> QED BY <1>9, <2>1, <2>2, <2>3, <2>4 DEF Surroundings
<1>10. CASE Stop
  BY <1>10, OwedFrame DEF Stop
<1>11. CASE Restart
  BY <1>11 DEF Restart, OwedInv
<1>12. CASE UNCHANGED vars
  BY <1>12, OwedFrame DEF vars
<1> QED BY <1>1, <1>2, <1>3, <1>4, <1>5, <1>6, <1>7, <1>8, <1>9, <1>10, <1>11, <1>12
        DEF Next, Thread

-----------------------------------------------------------------------------
(* IInv holds of every state the program reaches. *)
LEMMA Initially == Init => IInv
<1> SUFFICES ASSUME Init PROVE IInv
  OBVIOUS
<1>1. /\ aborts = <<>> /\ refreshes = <<>> /\ list = <<>> /\ rows = {} /\ handled = {}
      /\ asked = 0 /\ added = 0 /\ restarts = 0 /\ pc = "waiting" /\ at = NoSession
      /\ owed = {} /\ cache = {} /\ named = {} /\ known = {} /\ connected = {} /\ left = {}
      /\ rar = {} /\ ~conn /\ ~failed /\ ~stop
  BY DEF Init
<1>2. TypeOK
  <2>1. aborts \in Seq(Entry) /\ refreshes \in Seq(Entry) /\ list \in Seq(Entry)
    BY <1>1
  <2>2. /\ held \in [Session -> {"new", "open", "closed"}]
        /\ ccr \in [Session -> {"none", "initial", "unknown"}]
        /\ conn \in BOOLEAN /\ failed \in BOOLEAN /\ stop \in BOOLEAN
    BY DEF Init
  <2>3. {OwnerOf[s] : s \in {}} = {} /\ pc \in PC
    BY <1>1 DEF PC
  <2> QED BY <1>1, <2>1, <2>2, <2>3 DEF TypeOK
<1>3. Table
  BY <1>1, FS_EmptySet DEF Table
<1>4. /\ Numbers(aborts) = {} /\ Numbers(refreshes) = {} /\ Numbers(list) = {}
      /\ NoneTwice(aborts) /\ NoneTwice(refreshes) /\ NoneTwice(list)
  BY <1>1, EmptyNumbers
<1>5. Apart /\ Once /\ Places /\ ListInv /\ OwedInv
  BY <1>1, <1>4 DEF Apart, Once, Places, Given, ListInv, OwedInv
<1> QED BY <1>2, <1>3, <1>5 DEF IInv

LEMMA Invariance == Spec => []IInv
<1>1. IInv /\ [Next]_vars => IInv'
  BY TypeStep, TableStep, QueueStep, OwedStep DEF IInv, QueueInv
<1> QED BY Initially, <1>1, PTL DEF Spec

(* The types are right for any sessions, rows and bounds. *)
THEOREM TypeCorrect == Spec => []TypeOK
<1>1. IInv => TypeOK
  BY DEF IInv
<1> QED BY Invariance, <1>1, PTL

(* No request of the handlers is lost or processed twice, whichever pass   *)
(* fails, however many requests come in meanwhile, and across the list the *)
(* thread works from.                                                      *)
THEOREM RequestsOnce == Spec => []AskedOnce
<1>1. ASSUME IInv PROVE AskedOnce
  <2>1. aborts \in Seq(Entry) /\ refreshes \in Seq(Entry) /\ list \in Seq(Entry)
    BY <1>1 DEF IInv, TypeOK
  <2> DEFINE q == aborts \o refreshes
  <2>2. q \in Seq(Entry) /\ Numbers(q) = Numbers(aborts) \cup Numbers(refreshes)
    BY <2>1, ConcatNumbers
  <2>3. NoneTwice(q)
    BY <1>1, <2>1, ConcatOnce DEF IInv, Apart, Once
  <2> HIDE DEF q
  <2>4. Numbers(q) \cap Numbers(list) = {}
    BY <1>1, <2>2 DEF IInv, Apart
  <2>5. NoneTwice(q \o list)
    BY <1>1, <2>1, <2>2, <2>3, <2>4, ConcatOnce DEF IInv, Once
  <2>6. stop \/ 1 .. asked = Numbers(aborts) \cup Numbers(refreshes) \cup Numbers(list) \cup handled
    BY <1>1 DEF IInv, Places, Given
  <2> QED BY <1>1, <2>5, <2>6 DEF AskedOnce, IInv, Apart, q
<1> QED BY Invariance, <1>1, PTL

(* A row of the table is deleted only when no session it was about is      *)
(* still to be reached.                                                    *)
THEOREM RowsServed == Spec => RowServed
<1> DEFINE A == restarts' = restarts /\ ~(rows \subseteq rows') => owed = {}
<1>1. ASSUME IInv, [Next]_vars PROVE [A]_vars
  <2> SUFFICES ASSUME restarts' = restarts, ~(rows \subseteq rows')
               PROVE owed = {}
    OBVIOUS
  <2>1. DeleteRow
    <3>1. ASSUME NEW s \in Session, Handler(s) PROVE FALSE
      BY <3>1, HandlerAsks, <1>1 DEF IInv, tableVars
    <3>2. CASE Surroundings
      BY <3>1, <3>2 DEF Surroundings, Validate, Answered, AddRow, tableVars
    <3>3. CASE Stop \/ Restart \/ UNCHANGED vars
      BY <3>3 DEF Stop, Restart, vars, tableVars
    <3>4. CASE Thread
      BY <3>4
         DEF Thread, TakeConnection, GoWithout, LoadRows, LoadRowsFails, EndPass, LoadLocal,
             FromCache, FromDatabase, FromNowhere, Begin, SkipSession, NotConnected, AbortSession,
             RefreshSession, OperateRules, Treated, KeepRow, ListDone, End, tableVars
    <3> QED BY <1>1, <3>2, <3>3, <3>4 DEF Next
  <2>2. pc = "session" /\ left = {}
    BY <2>1 DEF DeleteRow, Finish
  <2>3. at = NoSession
    BY <1>1, <2>2 DEF IInv, TypeOK
  <2> QED BY <1>1, <2>2, <2>3 DEF IInv, OwedInv
<1> QED BY Invariance, <1>1, PTL DEF Spec, RowServed

=============================================================================
