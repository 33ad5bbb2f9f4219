------------------------- MODULE SessionCacheProofs -------------------------
(***************************************************************************)
(* Proofs about the session cache: its links are consistent for any sets   *)
(* of sessions, its indexes reach every cached session, a removed one is   *)
(* forgotten, and its maps implement the registry of sessions and links.   *)
(***************************************************************************)
EXTENDS SessionCache, ListProofs, TLAPS

(* The types of what the links depend on: no list of the address index. *)
RecordType == cache \in [Session -> Info \cup {NoInfo}]

LinkType ==
  /\ DOMAIN parent \subseteq Core
  /\ parent \in [DOMAIN parent -> [Session -> Nat]]
  /\ child \in [Session -> Core \cup {NoSession}]
  /\ \A s \in Core : child[s] = NoSession

IInv == RecordType /\ LinkType /\ LinksAgree /\ ChildrenAreCached

(* A session that its parent does not list yet is listed once after one    *)
(* push, whether or not the parent has a list, and no other entry changes. *)
LEMMA PushOnce ==
  ASSUME LinkType,
         NEW s \in Session, NEW p \in Core,
         Listed(parent, p)[s] = 0
  PROVE  LET list == Push(parent, s, p)
         IN  /\ DOMAIN list = DOMAIN parent \cup {p}
             /\ list \in [DOMAIN list -> [Session -> Nat]]
             /\ \A q, t \in Session :
                  Listed(list, q)[t] = IF q = p /\ t = s THEN 1
                                       ELSE Listed(parent, q)[t]
<1> DEFINE list == Push(parent, s, p)
<1>1. Listed(parent, p) \in [Session -> Nat]
  BY DEF LinkType, Listed, Session
<1>2. DOMAIN list = DOMAIN parent \cup {p}
  BY DEF Push
<1>3. /\ list = [q \in DOMAIN list |-> list[q]]
      /\ \A q \in DOMAIN list :
           list[q] = IF q = p THEN [Listed(parent, p) EXCEPT ![s] = @ + 1]
                     ELSE parent[q]
  BY DEF Push
<1> HIDE DEF list
<1>4. list \in [DOMAIN list -> [Session -> Nat]]
  <2>1. ASSUME NEW q \in DOMAIN list PROVE list[q] \in [Session -> Nat]
    <3>1. CASE q = p
      <4>1. list[q] = [Listed(parent, p) EXCEPT ![s] = @ + 1]
        BY <1>3, <3>1
      <4> QED BY <1>1, <4>1
    <3>2. CASE q # p
      <4>1. q \in DOMAIN parent /\ list[q] = parent[q]
        BY <1>2, <1>3, <3>2
      <4> QED BY <4>1 DEF LinkType
    <3> QED BY <3>1, <3>2
  <2> QED BY <1>3, <2>1
<1>5. ASSUME NEW q \in Session, NEW t \in Session
      PROVE  Listed(list, q)[t] = IF q = p /\ t = s THEN 1
                                  ELSE Listed(parent, q)[t]
  <2>1. CASE q = p
    <3>1. Listed(list, q) = [Listed(parent, p) EXCEPT ![s] = @ + 1]
      BY <1>2, <1>3, <2>1 DEF Listed
    <3> QED BY <1>1, <2>1, <3>1
  <2>2. CASE q # p
    BY <1>2, <1>3, <2>2 DEF Listed
  <2> QED BY <2>1, <2>2
<1> QED BY <1>2, <1>4, <1>5 DEF list

(* Nothing is cached and nothing is linked at the start. *)
LEMMA InitIInv == Init => IInv
<1> SUFFICES ASSUME Init PROVE IInv
  OBVIOUS
<1>1. RecordType /\ ChildrenAreCached
  BY DEF Init, RecordType, ChildrenAreCached
<1>2. DOMAIN parent = {}
  BY DEF Init
<1>3. LinkType
  <2>1. parent \in [DOMAIN parent -> [Session -> Nat]]
    BY <1>2 DEF Init
  <2> QED BY <1>2, <2>1 DEF Init, LinkType, Session
<1>4. LinksAgree
  BY <1>2, RoleAssumption DEF Init, LinksAgree, Listed, Session
<1> QED BY <1>1, <1>3, <1>4 DEF IInv

(* A record is written as a record and erased as NoInfo; no other session  *)
(* appears or disappears.                                                  *)
LEMMA CreateRecord ==
  ASSUME RecordType, NEW s \in Session, NEW info \in Info,
         cache' = [cache EXCEPT ![s] = info]
  PROVE  RecordType' /\ Cached' = Cached \cup {s}
BY InfoAssumption DEF RecordType, Cached, Info, Key

(* Replacing a record changes records only, not the set of cached sessions. *)
LEMMA ReplaceRecord ==
  ASSUME RecordType, NEW s \in Session, NEW info \in Info, Replace(s, info)
  PROVE  RecordType' /\ Cached' = Cached
<1>1. \A t \in Session : cache[t] # NoInfo => Updated(cache[t], info) \in Info
  BY DEF RecordType, Updated, Info, Key
<1>2. \A t \in Session : cache'[t] = NoInfo <=> cache[t] = NoInfo
  <2>1. NoInfo \notin Info
    BY InfoAssumption DEF Info, Key
  <2> QED BY <1>1, <2>1 DEF Replace, RecordType
<1>3. RecordType'
  BY <1>1 DEF Replace, RecordType
<1> QED BY <1>2, <1>3 DEF Cached

(* Erasing a record takes one session away. *)
LEMMA RemoveRecord ==
  ASSUME RecordType, NEW s \in Session, cache' = [cache EXCEPT ![s] = NoInfo]
  PROVE  RecordType' /\ Cached' = Cached \ {s}
BY DEF RecordType, Cached

(* A session that has just been created points to nobody, so one push      *)
(* lists it and MkLink's other branch, which moves a link, is not taken.   *)
LEMMA LinkCreated ==
  ASSUME IInv, NEW s \in Edge, NEW p \in Core,
         cache[s] = NoInfo, MkLink(s, p)
  PROVE  /\ LinkType' /\ LinksAgree'
         /\ child' = [child EXCEPT ![s] = p]
<1>1. s \in Session /\ child[s] = NoSession
  BY DEF IInv, ChildrenAreCached, Cached, Session
<1>2. Listed(parent, p)[s] = 0
  BY <1>1, RoleAssumption DEF IInv, LinksAgree, Session
<1>3. parent' = Push(parent, s, p) /\ child' = [child EXCEPT ![s] = p]
  BY <1>1 DEF MkLink
<1>4. /\ DOMAIN parent' = DOMAIN parent \cup {p}
      /\ parent' \in [DOMAIN parent' -> [Session -> Nat]]
      /\ \A q, t \in Session :
           Listed(parent', q)[t] = IF q = p /\ t = s THEN 1
                                   ELSE Listed(parent, q)[t]
  BY <1>1, <1>2, <1>3, PushOnce DEF IInv
<1>5. LinkType'
  BY <1>1, <1>3, <1>4, RoleAssumption DEF IInv, LinkType, Session
<1>6. LinksAgree'
  <2>1. \A q, t \in Session :
          Listed(parent', q)[t] = IF child'[t] = q THEN 1 ELSE 0
    BY <1>1, <1>3, <1>4, RoleAssumption DEF IInv, LinksAgree, LinkType, Session
  <2> QED BY <2>1 DEF LinksAgree, Listed
<1> QED BY <1>3, <1>5, <1>6

(* Removing the links of s leaves no link at either of its ends and every  *)
(* other link in place, in both maps.                                      *)
LEMMA LinkRemoved ==
  ASSUME IInv, NEW s \in Session, RemoveLink(s)
  PROVE  /\ LinkType' /\ LinksAgree'
         /\ child' = [c \in Session |-> IF c = s \/ child[c] = s
                                       THEN NoSession ELSE child[c]]
<1> USE DEF IInv
<1>1. CASE s \in DOMAIN parent
  <2>1. s \in Core /\ child[s] = NoSession
    BY <1>1 DEF LinkType
  <2>2. \A c \in Session : parent[s][c] > 0 <=> child[c] = s
    BY <1>1 DEF LinksAgree, Listed
  <2>3. child' = [c \in Session |-> IF c = s \/ child[c] = s
                                   THEN NoSession ELSE child[c]]
    BY <1>1, <2>1, <2>2 DEF RemoveLink
  <2>4. parent' = [q \in DOMAIN parent \ {s} |-> parent[q]]
    BY <1>1 DEF RemoveLink
  <2>5. LinkType'
    BY <2>1, <2>3, <2>4 DEF LinkType, Session
  <2>6. \A q, t \in Session :
          Listed(parent', q)[t] = IF q = s THEN 0 ELSE Listed(parent, q)[t]
    BY <2>4 DEF Listed
  <2>7. \A q, t \in Session :
          Listed(parent', q)[t] = IF child'[t] = q THEN 1 ELSE 0
    BY <2>1, <2>3, <2>6, RoleAssumption DEF LinksAgree, Session
  <2> QED BY <2>3, <2>5, <2>7 DEF LinksAgree, Listed
<1>2. CASE s \notin DOMAIN parent
  <2>1. \A c \in Session : child[c] # s
    BY <1>2 DEF LinksAgree, Listed
  <2>2. child' = [c \in Session |-> IF c = s \/ child[c] = s
                                   THEN NoSession ELSE child[c]]
    BY <1>2, <2>1 DEF RemoveLink, LinkType
  <2>3. parent' = Unlist(parent, s, child[s])
    BY <1>2 DEF RemoveLink
  <2>4. /\ DOMAIN parent' = DOMAIN parent
        /\ \A q \in DOMAIN parent :
             parent'[q] = IF q = child[s] THEN [parent[q] EXCEPT ![s] = 0]
                          ELSE parent[q]
        /\ parent' \in [DOMAIN parent -> [Session -> Nat]]
    BY <2>3 DEF Unlist, LinkType
  <2>5. LinkType'
    BY <2>2, <2>4 DEF LinkType, Session
  <2>6. \A q, t \in Session :
          Listed(parent', q)[t] = IF q = child[s] /\ t = s THEN 0
                                  ELSE Listed(parent, q)[t]
    BY <2>4 DEF Listed, LinkType
  <2>7. \A q, t \in Session :
          Listed(parent', q)[t] = IF child'[t] = q THEN 1 ELSE 0
    BY <2>1, <2>2, <2>6, RoleAssumption DEF LinksAgree, Session
  <2> QED BY <2>2, <2>5, <2>7 DEF LinksAgree, Listed
<1> QED BY <1>1, <1>2

(* The invariant is kept by every operation. *)
LEMMA Step == IInv /\ [Next]_vars => IInv'
<1> SUFFICES ASSUME IInv, [Next]_vars PROVE IInv'
  OBVIOUS
<1>1. ASSUME NEW s \in Session, NEW info \in Info, NEW p \in ParentFor(s),
             Create(s, info, p)
      PROVE  IInv'
  <2>1. RecordType' /\ Cached' = Cached \cup {s}
    BY <1>1, CreateRecord DEF Create, IInv
  <2>2. CASE p = NoSession
    <3>1. UNCHANGED links
      BY <1>1, <2>2 DEF Create
    <3>2. LinkType' /\ LinksAgree' /\ ChildrenAreCached'
      BY <2>1, <3>1 DEF links, IInv, LinkType, LinksAgree, Listed, ChildrenAreCached
    <3> QED BY <2>1, <3>2 DEF IInv
  <2>3. CASE p # NoSession
    <3>1. s \in Edge /\ p \in Core /\ cache[s] = NoInfo /\ MkLink(s, p)
      BY <1>1, <2>3 DEF Create, ParentFor
    <3>2. LinkType' /\ LinksAgree' /\ child' = [child EXCEPT ![s] = p]
      BY <3>1, LinkCreated
    <3>3. ChildrenAreCached'
      BY <2>1, <3>2 DEF IInv, ChildrenAreCached, LinkType
    <3> QED BY <2>1, <3>2, <3>3 DEF IInv
  <2> QED BY <2>2, <2>3
<1>2. ASSUME NEW s \in Session, NEW info \in Info, Replace(s, info)
      PROVE  IInv'
  <2>1. RecordType' /\ Cached' = Cached
    BY <1>2, ReplaceRecord DEF IInv
  <2>2. UNCHANGED links
    BY <1>2 DEF Replace
  <2> QED
    BY <2>1, <2>2 DEF links, IInv, LinkType, LinksAgree, Listed, ChildrenAreCached
<1>3. ASSUME NEW s \in Session, RemoveLocal(s)
      PROVE  IInv'
  <2>1. RecordType' /\ Cached' = Cached \ {s}
    BY <1>3, RemoveRecord DEF RemoveLocal, IInv
  <2>2. /\ LinkType' /\ LinksAgree'
        /\ child' = [c \in Session |-> IF c = s \/ child[c] = s
                                      THEN NoSession ELSE child[c]]
    BY <1>3, LinkRemoved DEF RemoveLocal
  <2>3. ChildrenAreCached'
    BY <2>1, <2>2 DEF IInv, ChildrenAreCached
  <2> QED BY <2>1, <2>2, <2>3 DEF IInv
<1>4. CASE UNCHANGED vars
  BY <1>4 DEF vars, IInv, RecordType, LinkType, LinksAgree, Listed,
              ChildrenAreCached, Cached
<1> QED BY <1>1, <1>2, <1>3, <1>4 DEF Next

(* The inductive invariant holds in every reachable state. *)
THEOREM Invariance == Spec => []IInv
<1>1. Init => IInv
  BY InitIInv
<1>2. IInv /\ [Next]_vars => IInv'
  BY Step
<1> QED BY <1>1, <1>2, PTL DEF Spec

(* g_mapParent and g_mapChild are each other's inverse after any sequence  *)
(* of inserts and removals: pcrf_session_cache_mk_link2parent and          *)
(* pcrf_session_cache_remove_link never let them drift apart.              *)
THEOREM LinkConsistency == Spec => []LinksAgree
<1>1. IInv => LinksAgree
  BY DEF IInv
<1> QED BY <1>1, Invariance, PTL

(* Only a cached session has a parent. *)
THEOREM NoLinkFromNowhere == Spec => []ChildrenAreCached
<1>1. IInv => ChildrenAreCached
  BY DEF IInv
<1> QED BY <1>1, Invariance, PTL

-----------------------------------------------------------------------------
(* The maps implement the registry. *)

LinkSet == {l \in Session \X Session : child[l[1]] = l[2]}

(* The empty cache is the empty registry. *)
LEMMA RegistryInit == Init => Registry!Init
BY RoleAssumption DEF Init, Registry!Init, Cached, Session

(* Creating a session opens it, replacing one is a stutter, removing one   *)
(* closes it, known or not.                                                *)
LEMMA RegistryStep ==
  IInv /\ [Next]_vars => [Registry!Next]_<<Cached, LinkSet>>
<1> SUFFICES ASSUME IInv, [Next]_vars
             PROVE  [Registry!Next]_<<Cached, LinkSet>>
  OBVIOUS
<1> USE DEF IInv
<1>1. ASSUME NEW s \in Session, NEW info \in Info, NEW p \in ParentFor(s),
             Create(s, info, p)
      PROVE  Registry!Next
  <2>1. s \notin Cached /\ Cached' = Cached \cup {s}
    BY <1>1, CreateRecord DEF Create, Cached
  <2>2. CASE p = NoSession
    <3>1. LinkSet' = LinkSet
      BY <1>1, <2>2 DEF Create, links, LinkSet
    <3>2. Registry!Open(s, {})
      BY <2>1, <3>1 DEF Registry!Open, LinkSet
    <3> QED BY <3>2 DEF Registry!Next, Registry!Party, Session
  <2>3. CASE p # NoSession
    <3>1. s \in Edge /\ p \in Core /\ cache[s] = NoInfo /\ MkLink(s, p)
      BY <1>1, <2>3 DEF Create, ParentFor
    <3>2. child' = [child EXCEPT ![s] = p] /\ child[s] = NoSession
      BY <2>1, <3>1, LinkCreated DEF ChildrenAreCached
    <3>3. LinkSet' = LinkSet \cup {<<s, p>>}
      <4>1. ASSUME NEW c \in Session, NEW q \in Session
            PROVE  child'[c] = q <=> child[c] = q \/ (c = s /\ q = p)
        BY <3>2, RoleAssumption DEF LinkType, Session
      <4>2. s \in Session /\ p \in Session
        BY <3>1 DEF Session
      <4> QED BY <4>1, <4>2 DEF LinkSet
    <3>4. Registry!Open(s, {<<s, p>>})
      BY <2>1, <3>1, <3>3 DEF Registry!Open, LinkSet
    <3>5. {<<s, p>>} \in SUBSET (Edge \X Core)
      BY <3>1
    <3> QED BY <3>4, <3>5 DEF Registry!Next, Registry!Party, Session
  <2> QED BY <2>2, <2>3
<1>2. ASSUME NEW s \in Session, NEW info \in Info, Replace(s, info)
      PROVE  UNCHANGED <<Cached, LinkSet>>
  BY <1>2, ReplaceRecord DEF Replace, links, LinkSet
<1>3. ASSUME NEW s \in Session, RemoveLocal(s)
      PROVE  Registry!Next
  <2>1. Cached' = Cached \ {s}
    BY <1>3, RemoveRecord DEF RemoveLocal
  <2>2. child' = [c \in Session |-> IF c = s \/ child[c] = s
                                   THEN NoSession ELSE child[c]]
    BY <1>3, LinkRemoved DEF RemoveLocal
  <2>3. LinkSet' = {l \in LinkSet : s \notin {l[1], l[2]}}
    <3>1. ASSUME NEW c \in Session, NEW q \in Session
          PROVE  child'[c] = q <=> child[c] = q /\ c # s /\ q # s
      BY <2>2, RoleAssumption DEF Session
    <3> QED BY <3>1 DEF LinkSet
  <2>4. Registry!Close(s)
    BY <2>1, <2>3 DEF Registry!Close, LinkSet
  <2> QED BY <2>4 DEF Registry!Next, Registry!Party, Session
<1>4. CASE UNCHANGED vars
  BY <1>4 DEF vars, Cached, LinkSet
<1> QED BY <1>1, <1>2, <1>3, <1>4 DEF Next

(* What the five maps do is what a set of live sessions and a relation     *)
(* between them would do.                                                  *)
THEOREM Implementation == Spec => ImplementsRegistry
<1>1. Init => Registry!Init
  BY RegistryInit
<1>2. IInv /\ [Next]_vars => [Registry!Next]_<<Cached, LinkSet>>
  BY RegistryStep
<1> QED
  BY <1>1, <1>2, Invariance, PTL
  DEF Spec, ImplementsRegistry, Registry!Spec, Registry!vars, LinkSet

-----------------------------------------------------------------------------
(* The indexes.  They say nothing about the links, so they have an         *)
(* invariant of their own.                                                 *)

IndexType ==
  /\ framedIP \in [Key -> Seq(Session)]
  /\ subscriber \in [Subscriber -> SUBSET Session]

IndexInv == RecordType /\ IndexType /\ IndexesCover

(* Appending a session to one list keeps every list a list and every       *)
(* session where it is.                                                    *)
LEMMA AddressAdded ==
  ASSUME IndexType, NEW s \in Session, NEW k \in Key,
         framedIP' = [framedIP EXCEPT ![k] = Append(@, s)]
  PROVE  /\ framedIP' \in [Key -> Seq(Session)]
         /\ s \in Range(framedIP'[k])
         /\ \A a \in Key : Range(framedIP[a]) \subseteq Range(framedIP'[a])
<1>1. framedIP[k] \in Seq(Session)
  BY DEF IndexType
<1>2. /\ framedIP'[k] = Append(framedIP[k], s)
      /\ \A a \in Key \ {k} : framedIP'[a] = framedIP[a]
  BY DEF IndexType
<1>3. framedIP' \in [Key -> Seq(Session)]
  BY <1>1 DEF IndexType
<1>4. Range(Append(framedIP[k], s)) = Range(framedIP[k]) \cup {s}
  BY <1>1, AppendedList
<1> QED BY <1>2, <1>3, <1>4

(* Erasing a session from one list keeps the others in it.                 *)
LEMMA AddressErased ==
  ASSUME IndexType, NEW s \in Session, NEW k \in Key,
         framedIP' = [framedIP EXCEPT ![k] = Without(@, s)]
  PROVE  /\ framedIP' \in [Key -> Seq(Session)]
         /\ s \notin Range(framedIP'[k])
         /\ \A a \in Key : Range(framedIP[a]) \ {s} \subseteq Range(framedIP'[a])
<1>1. framedIP[k] \in Seq(Session)
  BY DEF IndexType
<1>2. /\ framedIP'[k] = Without(framedIP[k], s)
      /\ \A a \in Key \ {k} : framedIP'[a] = framedIP[a]
  BY DEF IndexType
<1>3. /\ Without(framedIP[k], s) \in Seq(Session)
      /\ Range(Without(framedIP[k], s)) = Range(framedIP[k]) \ {s}
  BY <1>1, WithoutList
<1>4. framedIP' \in [Key -> Seq(Session)]
  BY <1>3 DEF IndexType
<1> QED BY <1>2, <1>3, <1>4

(* What pcrf_session_cache_remove_local does with the record and the       *)
(* indexes                                                                 *)
LEMMA Forgetting ==
  ASSUME RecordType, IndexType, NEW s \in Cached, RemoveLocal(s)
  PROVE  /\ IndexType'
         /\ \A x \in Subscriber : subscriber[x] \ {s} \subseteq subscriber'[x]
         /\ \A a \in Key :
              Range(framedIP[a]) \ {s} \subseteq Range(framedIP'[a])
         /\ s \notin subscriber'[cache[s].subscriberId]
         /\ s \notin Range(framedIP'[cache[s].framedIP])
<1>1. /\ s \in Session /\ cache[s] # NoInfo
      /\ cache[s].subscriberId \in Subscriber
      /\ cache[s].framedIP \in Key
  BY DEF RecordType, Cached, Info
<1>2. /\ subscriber' = [subscriber EXCEPT ![cache[s].subscriberId] = @ \ {s}]
      /\ framedIP' = [framedIP EXCEPT ![cache[s].framedIP] = Without(@, s)]
  BY <1>1 DEF RemoveLocal
<1>3. /\ framedIP' \in [Key -> Seq(Session)]
      /\ s \notin Range(framedIP'[cache[s].framedIP])
      /\ \A a \in Key : Range(framedIP[a]) \ {s} \subseteq Range(framedIP'[a])
  BY <1>1, <1>2, AddressErased
<1>4. /\ subscriber' \in [Subscriber -> SUBSET Session]
      /\ s \notin subscriber'[cache[s].subscriberId]
      /\ \A x \in Subscriber : subscriber[x] \ {s} \subseteq subscriber'[x]
  BY <1>1, <1>2 DEF IndexType
<1> QED BY <1>3, <1>4 DEF IndexType

LEMMA InitIndexInv == Init => IndexInv
<1> SUFFICES ASSUME Init PROVE IndexInv
  OBVIOUS
<1>1. RecordType /\ IndexesCover
  BY InitIInv DEF IInv, Init, IndexesCover, Cached
<1>2. IndexType
  BY DEF Init, IndexType
<1> QED BY <1>1, <1>2 DEF IndexInv

LEMMA IndexStep == IndexInv /\ [Next]_vars => IndexInv'
<1> SUFFICES ASSUME IndexInv, [Next]_vars PROVE IndexInv'
  OBVIOUS
<1> USE DEF IndexInv
<1>1. ASSUME NEW s \in Session, NEW info \in Info, NEW p \in ParentFor(s),
             Create(s, info, p)
      PROVE  IndexInv'
  <2>1. RecordType' /\ Cached' = Cached \cup {s}
    BY <1>1, CreateRecord DEF Create
  <2>2. info.subscriberId \in Subscriber /\ info.framedIP \in Key
    BY DEF Info
  <2>3. /\ subscriber' \in [Subscriber -> SUBSET Session]
        /\ s \in subscriber'[info.subscriberId]
        /\ \A x \in Subscriber : subscriber[x] \subseteq subscriber'[x]
    BY <1>1, <2>2 DEF Create, IndexType
  <2>4. /\ framedIP' \in [Key -> Seq(Session)]
        /\ s \in Core => s \in Range(framedIP'[info.framedIP])
        /\ \A a \in Key : Range(framedIP[a]) \subseteq Range(framedIP'[a])
    <3>1. CASE s \in Core
      <4>1. framedIP' = [framedIP EXCEPT ![info.framedIP] = Append(@, s)]
        BY <1>1, <3>1 DEF Create
      <4> QED BY <2>2, <4>1, AddressAdded
    <3>2. CASE s \notin Core
      BY <1>1, <3>2 DEF Create, IndexType
    <3> QED BY <3>1, <3>2
  <2>5. IndexesCover'
    BY <2>1, <2>2, <2>3, <2>4 DEF IndexesCover
  <2> QED BY <2>1, <2>3, <2>4, <2>5 DEF IndexType
<1>2. ASSUME NEW s \in Session, NEW info \in Info, Replace(s, info)
      PROVE  IndexInv'
  <2>1. RecordType' /\ Cached' = Cached /\ UNCHANGED indexes
    BY <1>2, ReplaceRecord DEF Replace
  <2> QED BY <2>1 DEF indexes, IndexType, IndexesCover
<1>3. ASSUME NEW s \in Session, RemoveLocal(s)
      PROVE  IndexInv'
  <2>1. RecordType' /\ Cached' = Cached \ {s}
    BY <1>3, RemoveRecord DEF RemoveLocal
  <2>2. CASE s \in Cached
    <3>1. /\ IndexType'
          /\ \A x \in Subscriber : subscriber[x] \ {s} \subseteq subscriber'[x]
          /\ \A a \in Key :
               Range(framedIP[a]) \ {s} \subseteq Range(framedIP'[a])
      BY <1>3, <2>2, Forgetting
    <3>2. IndexesCover'
      BY <2>1, <3>1 DEF IndexesCover
    <3> QED BY <2>1, <3>1, <3>2
  <2>3. CASE s \notin Cached
    <3>1. UNCHANGED indexes /\ Cached' = Cached
      BY <1>3, <2>1, <2>3 DEF RemoveLocal, Cached
    <3> QED BY <2>1, <3>1 DEF indexes, IndexType, IndexesCover
  <2> QED BY <2>2, <2>3
<1>4. CASE UNCHANGED vars
  BY <1>4 DEF vars, RecordType, IndexType, IndexesCover, Cached
<1> QED BY <1>1, <1>2, <1>3, <1>4 DEF Next

THEOREM IndexInvariance == Spec => []IndexInv
<1>1. Init => IndexInv
  BY InitIndexInv
<1>2. IndexInv /\ [Next]_vars => IndexInv'
  BY IndexStep
<1> QED BY <1>1, <1>2, PTL DEF Spec

(* Every map holds what its type in pcrf_session_cache.cpp and             *)
(* pcrf_session_cache_index.cpp says.                                      *)
THEOREM TypeCorrect == Spec => []TypeOK
<1>1. IInv /\ IndexInv => TypeOK
  BY DEF IInv, IndexInv, RecordType, LinkType, IndexType, TypeOK, Session
<1> QED BY <1>1, Invariance, IndexInvariance, PTL

(* A cached session is found by a subscriber and, if its peer is a         *)
(* gateway, by an address, whatever else was inserted, replaced and        *)
(* removed under the same keys.                                            *)
THEOREM EverySessionIsIndexed == Spec => []IndexesCover
<1>1. IndexInv => IndexesCover
  BY DEF IndexInv
<1> QED BY <1>1, IndexInvariance, PTL

(* pcrf_session_cache_remove_local forgets a session under the keys of its *)
(* record and leaves no link that touches it.                              *)
THEOREM RemovedIsForgotten == Spec => RemovalForgets
<1> DEFINE Forgets ==
      \A s \in Cached :
        cache'[s] = NoInfo =>
          /\ s \notin subscriber'[cache[s].subscriberId]
          /\ s \notin Range(framedIP'[cache[s].framedIP])
          /\ child'[s] = NoSession
          /\ \A c \in Session : child'[c] # s
<1>1. IInv /\ IndexInv /\ [Next]_vars => [Forgets]_vars
  <2> SUFFICES ASSUME IInv, IndexInv, Next, NEW s \in Cached, cache'[s] = NoInfo
               PROVE  /\ s \notin subscriber'[cache[s].subscriberId]
                      /\ s \notin Range(framedIP'[cache[s].framedIP])
                      /\ child'[s] = NoSession
                      /\ \A c \in Session : child'[c] # s
    OBVIOUS
  <2>1. s \in Session /\ s \notin Cached'
    BY DEF Cached
  <2>2. RemoveLocal(s)
    <3>1. ASSUME NEW q \in Session, NEW info \in Info, NEW p \in ParentFor(q),
                 Create(q, info, p)
          PROVE  FALSE
      BY <2>1, <3>1, CreateRecord DEF Create, IndexInv
    <3>2. ASSUME NEW q \in Session, NEW info \in Info, Replace(q, info)
          PROVE  FALSE
      BY <2>1, <3>2, ReplaceRecord DEF IndexInv
    <3>3. ASSUME NEW q \in Session, RemoveLocal(q) PROVE q = s
      BY <2>1, <3>3, RemoveRecord DEF IndexInv, RemoveLocal
    <3> QED BY <3>1, <3>2, <3>3 DEF Next
  <2>3. child' = [c \in Session |-> IF c = s \/ child[c] = s
                                    THEN NoSession ELSE child[c]]
    BY <2>1, <2>2, LinkRemoved DEF RemoveLocal
  <2>4. s # NoSession
    BY <2>1, RoleAssumption DEF Session
  <2> QED BY <2>1, <2>2, <2>3, <2>4, Forgetting DEF IndexInv
<1> QED
  BY <1>1, Invariance, IndexInvariance, PTL DEF Spec, RemovalForgets

=============================================================================
