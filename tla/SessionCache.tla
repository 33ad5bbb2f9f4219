---------------------------- MODULE SessionCache ----------------------------
(***************************************************************************)
(* The session cache of one node, pcrf_session_cache.cpp, with its         *)
(* indexes and links, pcrf_session_cache_index.cpp.  Five maps are guarded *)
(* by one mutex, and every operation takes it once, so an operation is one *)
(* action; what happens between two operations of a caller is modelled     *)
(* where the callers are.  The same operations serve the Diameter handlers *)
(* and the commands that arrive from the other nodes.                      *)
(*                                                                         *)
(* Of a cached record only the two fields an index is built from are kept: *)
(* the subscriber and the Framed-IP-Address, which may be null.            *)
(***************************************************************************)
EXTENDS Naturals, SequencesExt, Lists

CONSTANTS Core,        \* Session-Ids of peers with an address index: UGW, Ericsson
          Edge,        \* Session-Ids of the other peers: SCE, Procera
          Address,     \* Framed-IP-Addresses
          Subscriber,  \* subscriber identifiers
          NoAddress,   \* a null Framed-IP-Address, which is indexed as ""
          NoInfo,      \* not in g_umapSessionCache
          NoSession,   \* not in g_mapChild
          MaxListed    \* a bound of the model on the lists of the address index

ASSUME RoleAssumption == Core \cap Edge = {} /\ NoSession \notin Core \cup Edge
ASSUME InfoAssumption ==
  NoInfo \notin [subscriberId : Subscriber, framedIP : Address \cup {NoAddress}]

VARIABLES cache,       \* g_umapSessionCache
          framedIP,    \* g_mapFramedIPIndex, absent keys as empty lists
          subscriber,  \* g_mapSubscriberId, absent keys as empty sets
          parent,      \* g_mapParent: how often a session lists another one
          child        \* g_mapChild

links == <<parent, child>>
indexes == <<framedIP, subscriber>>
vars == <<cache, framedIP, subscriber, parent, child>>

Session == Core \cup Edge
Key == Address \cup {NoAddress}
Info == [subscriberId : Subscriber, framedIP : Key]

Cached == {s \in Session : cache[s] # NoInfo}

TypeOK ==
  /\ cache \in [Session -> Info \cup {NoInfo}]
  /\ framedIP \in [Key -> Seq(Session)]
  /\ subscriber \in [Subscriber -> SUBSET Session]
  /\ DOMAIN parent \subseteq Session
  /\ parent \in [DOMAIN parent -> [Session -> Nat]]
  /\ child \in [Session -> Session \cup {NoSession}]

(* pcrf_session_cache_load_list exits at once: the cache starts empty. *)
Init ==
  /\ cache = [s \in Session |-> NoInfo]
  /\ framedIP = [a \in Key |-> <<>>]
  /\ subscriber = [x \in Subscriber |-> {}]
  /\ parent = [p \in {} |-> [s \in Session |-> 0]]
  /\ child = [s \in Session |-> NoSession]

-----------------------------------------------------------------------------
(* Links.  parent[p][s] is the number of times the list of p holds s: the  *)
(* order of these lists is never used.                                     *)

Listed(list, p) == IF p \in DOMAIN list THEN list[p] ELSE [s \in Session |-> 0]

(* s is appended to the list of p, which is created if need be. *)
Push(list, s, p) ==
  [q \in DOMAIN list \cup {p} |->
     IF q = p THEN [Listed(list, p) EXCEPT ![s] = @ + 1] ELSE list[q]]

(* Every occurrence of s is erased from the list of p, which stays. *)
Unlist(list, s, p) ==
  [q \in DOMAIN list |-> IF q = p THEN [list[q] EXCEPT ![s] = 0] ELSE list[q]]

(* pcrf_session_cache_mk_link2parent *)
MkLink(s, p) ==
  /\ parent' = LET pushed == Push(parent, s, p)
               IN  IF child[s] \in {NoSession, p}
                   THEN pushed
                   ELSE Push(Unlist(pushed, s, child[s]), s, p)
  /\ child' = [child EXCEPT ![s] = p]

(* A faulty RemoveLink, no part of the model: a removed parent leaves the  *)
(* links of its children in place.                                         *)
RemoveLinkKeepsChildren(s) ==
  IF s \in DOMAIN parent
  THEN /\ parent' = [q \in DOMAIN parent \ {s} |-> parent[q]]
       /\ UNCHANGED child
  ELSE /\ parent' = Unlist(parent, s, child[s])
       /\ child' = [child EXCEPT ![s] = NoSession]

(* A session with a list forgets it and the links of its members; only a   *)
(* session without a list is taken out of the list of its own parent.      *)
RemoveLink(s) ==
  IF s \in DOMAIN parent
  THEN /\ parent' = [q \in DOMAIN parent \ {s} |-> parent[q]]
       /\ child' = [c \in Session |-> IF parent[s][c] > 0 /\ child[c] = s
                                      THEN NoSession ELSE child[c]]
  ELSE /\ parent' = Unlist(parent, s, child[s])
       /\ child' = [child EXCEPT ![s] = NoSession]

-----------------------------------------------------------------------------
(* What the replaced record hands to a linked one: a null does not. *)
Updated(old, new) ==
  [subscriberId |-> new.subscriberId,
   framedIP |-> IF new.framedIP = NoAddress THEN old.framedIP ELSE new.framedIP]

(* Faulty variants of the three operations.  They are no part of the       *)
(* model: each shows that a property notices the mistake its name states.  *)

(* A null parent is linked like any other. *)
CreateLinksToNull(s, info, p) ==
  /\ cache[s] = NoInfo
  /\ s \in Core => Len(framedIP[info.framedIP]) < MaxListed
  /\ cache' = [cache EXCEPT ![s] = info]
  /\ framedIP' = IF s \in Core
                 THEN [framedIP EXCEPT ![info.framedIP] = Append(@, s)]
                 ELSE framedIP
  /\ subscriber' = [subscriber EXCEPT ![info.subscriberId] = @ \cup {s}]
  /\ MkLink(s, p)

(* A replaced record is unlinked as if it had been removed first. *)
ReplaceUnlinks(s, info) ==
  /\ cache[s] # NoInfo
  /\ cache' = [cache EXCEPT ![s] = info]
  /\ RemoveLink(s)
  /\ UNCHANGED indexes

(* The whole list of the address is erased, not the entries of s. *)
RemoveLocalClearsList(s) ==
  /\ RemoveLink(s)
  /\ cache' = [cache EXCEPT ![s] = NoInfo]
  /\ IF cache[s] = NoInfo
     THEN UNCHANGED indexes
     ELSE /\ subscriber' = [subscriber EXCEPT ![cache[s].subscriberId] = @ \ {s}]
          /\ framedIP' = [framedIP EXCEPT ![cache[s].framedIP] = <<>>]

(* The walk over the address list stops at the first entry it erases. *)
RemoveLocalOnce(s) ==
  /\ RemoveLink(s)
  /\ cache' = [cache EXCEPT ![s] = NoInfo]
  /\ IF cache[s] = NoInfo
     THEN UNCHANGED indexes
     ELSE /\ subscriber' = [subscriber EXCEPT ![cache[s].subscriberId] = @ \ {s}]
          /\ framedIP' = [framedIP EXCEPT ![cache[s].framedIP] = RemoveFirst(@, s)]

(* pcrf_session_cache_insert_local of an unknown session *)
Create(s, info, p) ==
  /\ cache[s] = NoInfo
  /\ s \in Core => Len(framedIP[info.framedIP]) < MaxListed
  /\ cache' = [cache EXCEPT ![s] = info]
  /\ framedIP' = IF s \in Core
                 THEN [framedIP EXCEPT ![info.framedIP] = Append(@, s)]
                 ELSE framedIP
  /\ subscriber' = [subscriber EXCEPT ![info.subscriberId] = @ \cup {s}]
  /\ IF p = NoSession THEN UNCHANGED links ELSE MkLink(s, p)

(* pcrf_session_cache_insert_local of a known session: its record and the  *)
(* records linked to it are overwritten, no index and no link follows.     *)
Replace(s, info) ==
  /\ cache[s] # NoInfo
  /\ cache' = [t \in Session |->
                 IF t = s THEN info
                 ELSE IF cache[t] # NoInfo /\ Listed(parent, s)[t] > 0
                      THEN Updated(cache[t], info)
                      ELSE cache[t]]
  /\ UNCHANGED <<indexes, links>>

(* pcrf_session_cache_remove_local: the links go even if s is not cached;  *)
(* the indexes are cleared at the keys the record holds now.               *)
RemoveLocal(s) ==
  /\ RemoveLink(s)
  /\ cache' = [cache EXCEPT ![s] = NoInfo]
  /\ IF cache[s] = NoInfo
     THEN UNCHANGED indexes
     ELSE /\ subscriber' = [subscriber EXCEPT ![cache[s].subscriberId] = @ \ {s}]
          /\ framedIP' = [framedIP EXCEPT ![cache[s].framedIP] = Without(@, s)]

(* The parent a caller passes is a session it found in the address index,  *)
(* and it looks for one only on behalf of an SCE or a Procera session.     *)
ParentFor(s) == IF s \in Edge THEN Core \cup {NoSession} ELSE {NoSession}

Next == \E s \in Session :
          \/ \E info \in Info, p \in ParentFor(s) : Create(s, info, p)
          \/ \E info \in Info : Replace(s, info)
          \/ RemoveLocal(s)

Spec == Init /\ [][Next]_vars

-----------------------------------------------------------------------------
(* The two link maps, updated by different helpers on different paths, are *)
(* each other's inverse: a session lists exactly the sessions that point   *)
(* to it, each once, so that walking a list reaches every child once.      *)
LinksAgree ==
  \A p, s \in Session :
    Listed(parent, p)[s] = IF child[s] = p THEN 1 ELSE 0

(* Only cached sessions point to a parent: a link is made after the record *)
(* and removed before it, and a replaced record keeps it.                  *)
ChildrenAreCached == \A s \in Session : child[s] # NoSession => s \in Cached

(* No cached session drops out of reach: each one is found by a subscriber *)
(* and, if its peer is a gateway, by an address, whatever other sessions   *)
(* were inserted, replaced and removed under the same keys.                *)
IndexesCover ==
  \A s \in Cached :
    /\ \E x \in Subscriber : s \in subscriber[x]
    /\ s \in Core => \E a \in Key : s \in Range(framedIP[a])

(* A removed session is forgotten under the keys its record held, even if  *)
(* its id was listed there more than once, and no link touches it: what    *)
(* pcrf_session_cache_remove_local leaves behind cannot lead back to it.   *)
RemovalForgets ==
  [][\A s \in Cached :
       cache'[s] = NoInfo =>
         /\ s \notin subscriber'[cache[s].subscriberId]
         /\ s \notin Range(framedIP'[cache[s].framedIP])
         /\ child'[s] = NoSession
         /\ \A c \in Session : child'[c] # s]_vars

-----------------------------------------------------------------------------
(* The live sessions are the cached ones, the links are g_mapChild. *)
Registry == INSTANCE SessionRegistry
              WITH live <- Cached,
                   link <- {l \in Session \X Session : child[l[1]] = l[2]}

(* The maps implement the registry of sessions and links. *)
ImplementsRegistry == Registry!Spec

=============================================================================
