---------------------------- MODULE DBPoolProofs ----------------------------
(***************************************************************************)
(* The invariants of module DBPool, and that it implements ConnPool, for   *)
(* any number of connections and any finite set of clients.                *)
(*                                                                         *)
(* The walk through the list is not atomic, so that "there are as many     *)
(* free connections as tokens" is not enough: a walker could have passed   *)
(* the free ones.  What carries the proof is WalkersHaveRoom, one          *)
(* inequality per position of the list.                                    *)
(***************************************************************************)
EXTENDS DBPool, FiniteSetTheorems, TLAPS

(* The conjunction that is inductive: TokensMatchFree gives the inequality *)
(* of WalkersHaveRoom for a client that starts its walk, WalkersHaveRoom   *)
(* gives AlwaysFound, and OwnersAgree says who unlocks what.               *)
IInv ==
  /\ TypeOK
  /\ OwnersAgree
  /\ TokensMatchFree
  /\ WalkersHaveRoom
  /\ AlwaysFound

(* The sets that are counted are finite. *)
LEMMA Finiteness ==
  ASSUME NEW k \in Conn
  PROVE  /\ IsFiniteSet(Conn)
         /\ IsFiniteSet(Scanning)
         /\ IsFiniteSet(Posting)
         /\ IsFiniteSet(ScanningFrom(k))
         /\ IsFiniteSet(FreeFrom(k))
<1>1. IsFiniteSet(Conn) /\ IsFiniteSet(Client)
  BY FS_Interval, ClientAssumption, NConnAssumption DEF Conn
<1>2. Scanning \in SUBSET Client /\ Posting \in SUBSET Client
  BY DEF Scanning, Posting
<1>3. ScanningFrom(k) \in SUBSET Client /\ FreeFrom(k) \in SUBSET Conn
  BY DEF ScanningFrom, Scanning, FreeFrom
<1> QED
  BY <1>1, <1>2, <1>3, FS_Subset

(* ... and still are after a step. *)
LEMMA Finiteness2 ==
  ASSUME NEW k \in Conn
  PROVE  /\ IsFiniteSet(Scanning')
         /\ IsFiniteSet(Posting')
         /\ IsFiniteSet(ScanningFrom(k)')
         /\ IsFiniteSet(FreeFrom(k)')
<1>1. IsFiniteSet(Conn) /\ IsFiniteSet(Client)
  BY FS_Interval, ClientAssumption, NConnAssumption DEF Conn
<1>2. Scanning' \in SUBSET Client /\ Posting' \in SUBSET Client
  BY DEF Scanning, Posting
<1>3. ScanningFrom(k)' \in SUBSET Client /\ FreeFrom(k)' \in SUBSET Conn
  BY DEF ScanningFrom, Scanning, FreeFrom
<1> QED
  BY <1>1, <1>2, <1>3, FS_Subset

(* The pool starts with as many tokens as unlocked connections. *)
LEMMA InitIInv == Init => IInv
<1> SUFFICES ASSUME Init PROVE IInv
  OBVIOUS
<1> USE NConnAssumption
<1>1. TypeOK
  BY DEF Init, TypeOK, Conn, PC, Ret
<1>2. OwnersAgree
  BY ClientAssumption DEF Init, OwnersAgree
<1>3. Scanning = {} /\ Posting = {} /\ FreeFrom(1) = 1 .. NConn
  BY DEF Init, Scanning, Posting, FreeFrom, Conn
<1>4. TokensMatchFree
  BY <1>3, FS_EmptySet, FS_Interval DEF TokensMatchFree, Init
<1>5. WalkersHaveRoom
  <2> SUFFICES ASSUME NEW k \in Conn
               PROVE  Cardinality(ScanningFrom(k)) <= Cardinality(FreeFrom(k))
    BY DEF WalkersHaveRoom
  <2>1. ScanningFrom(k) = {}
    BY <1>3 DEF ScanningFrom
  <2> QED
    BY <2>1, FS_EmptySet, Finiteness, FS_CardinalityType
<1>6. AlwaysFound
  BY DEF Init, AlwaysFound
<1> QED
  BY <1>1, <1>2, <1>4, <1>5, <1>6 DEF IInv

-----------------------------------------------------------------------------
(* Every step preserves the invariant: one lemma per conjunct. *)

(* Type correctness: get and rel leave every variable in its range.        *)
LEMMA TypeStep ==
  ASSUME IInv, [Next]_vars
  PROVE  TypeOK'
<1> USE NConnAssumption DEF TypeOK, PC, Ret, Conn
<1>1. TypeOK /\ OwnersAgree
  BY DEF IInv
<1>2. ASSUME NEW c \in Client, GetCall(c) PROVE TypeOK'
  BY <1>1, <1>2 DEF GetCall
<1>3. ASSUME NEW c \in Client, SemWait(c) PROVE TypeOK'
  BY <1>1, <1>3 DEF SemWait
<1>4. ASSUME NEW c \in Client, SemTimeout(c) PROVE TypeOK'
  BY <1>1, <1>4 DEF SemTimeout
<1>5. ASSUME NEW c \in Client, TryLockFree(c) PROVE TypeOK'
  BY <1>1, <1>5 DEF TryLockFree
<1>6. ASSUME NEW c \in Client, TryLockBusy(c) PROVE TypeOK'
  <2>1. CASE pos[c] = NConn
    BY <1>1, <1>6, <2>1 DEF TryLockBusy
  <2>2. CASE pos[c] # NConn
    <3>1. pos[c] + 1 \in Conn
      BY <1>1, <2>2
    <3> QED
      BY <1>1, <1>6, <2>2, <3>1 DEF TryLockBusy
  <2> QED
    BY <2>1, <2>2
<1>7. ASSUME NEW c \in Client, RelUnlock(c) PROVE TypeOK'
  BY <1>1, <1>7 DEF RelUnlock
<1>8. ASSUME NEW c \in Client, RelPost(c) PROVE TypeOK'
  BY <1>1, <1>8 DEF RelPost
<1>9. CASE UNCHANGED vars
  BY <1>1, <1>9 DEF vars
<1> QED
  BY <1>2, <1>3, <1>4, <1>5, <1>6, <1>7, <1>8, <1>9 DEF Next

(* A client that holds a connection is the one that locked it, so that its *)
(* rel unlocks its own connection and nobody else's.                       *)
LEMMA OwnersStep ==
  ASSUME IInv, [Next]_vars
  PROVE  OwnersAgree'
<1> USE ClientAssumption, NConnAssumption DEF TypeOK, OwnersAgree, Conn
<1>1. TypeOK /\ OwnersAgree
  BY DEF IInv
<1>2. ASSUME NEW c \in Client, GetCall(c) PROVE OwnersAgree'
  BY <1>1, <1>2 DEF GetCall
<1>3. ASSUME NEW c \in Client, SemWait(c) PROVE OwnersAgree'
  BY <1>1, <1>3 DEF SemWait
<1>4. ASSUME NEW c \in Client, SemTimeout(c) PROVE OwnersAgree'
  BY <1>1, <1>4 DEF SemTimeout
<1>5. ASSUME NEW c \in Client, TryLockFree(c) PROVE OwnersAgree'
  <2> DEFINE i == pos[c]
  <2>1. i \in Conn /\ i # 0 /\ lock[i] = NoOne /\ held[c] = 0 /\ c # NoOne
    BY <1>1, <1>5 DEF TryLockFree
  <2>2. /\ lock' = [lock EXCEPT ![i] = c]
        /\ held' = [held EXCEPT ![c] = i]
        /\ pc' = [pc EXCEPT ![c] = "holding"]
    BY <1>5 DEF TryLockFree
  <2>3. \A d \in Client : held[d] # i
    BY <1>1, <2>1
  <2> HIDE DEF i
  <2>4. \A d \in Client : pc'[d] = "holding" <=> held'[d] # 0
    BY <1>1, <2>1, <2>2
  <2>5. \A d \in Client : held'[d] # 0 => lock'[held'[d]] = d
    BY <1>1, <2>1, <2>2, <2>3
  <2>6. \A j \in Conn : lock'[j] # NoOne => held'[lock'[j]] = j
    BY <1>1, <2>1, <2>2
  <2> QED
    BY <2>4, <2>5, <2>6
<1>6. ASSUME NEW c \in Client, TryLockBusy(c) PROVE OwnersAgree'
  BY <1>1, <1>6 DEF TryLockBusy
<1>7. ASSUME NEW c \in Client, RelUnlock(c) PROVE OwnersAgree'
  BY <1>1, <1>7 DEF RelUnlock
<1>8. ASSUME NEW c \in Client, RelPost(c) PROVE OwnersAgree'
  BY <1>1, <1>8 DEF RelPost
<1>9. CASE UNCHANGED vars
  BY <1>1, <1>9 DEF vars
<1> QED
  BY <1>2, <1>3, <1>4, <1>5, <1>6, <1>7, <1>8, <1>9 DEF Next

(* A walker that is about to give up does not exist: at the last position  *)
(* WalkersHaveRoom leaves it a free connection.                            *)
LEMMA LastIsFree ==
  ASSUME IInv, NEW c \in Client, pc[c] = "scanning", pos[c] = NConn
  PROVE  lock[pos[c]] = NoOne
<1>1. NConn \in Conn
  BY NConnAssumption DEF Conn
<1>2. c \in ScanningFrom(NConn)
  BY <1>1 DEF IInv, TypeOK, ScanningFrom, Scanning, Conn
<1>3. Cardinality(ScanningFrom(NConn)) # 0
  BY <1>1, <1>2, Finiteness, FS_EmptySet
<1>4. /\ Cardinality(ScanningFrom(NConn)) \in Nat
      /\ Cardinality(FreeFrom(NConn)) \in Nat
      /\ Cardinality(ScanningFrom(NConn)) <= Cardinality(FreeFrom(NConn))
  BY <1>1, Finiteness, FS_CardinalityType DEF IInv, WalkersHaveRoom
<1>5. FreeFrom(NConn) # {}
  BY <1>3, <1>4, FS_EmptySet
<1> QED
  BY <1>5, NConnAssumption DEF FreeFrom, Conn

(* get never leaves its loop without a connection: the last step of a walk *)
(* cannot meet a locked connection.                                        *)
LEMMA FoundStep ==
  ASSUME IInv, [Next]_vars
  PROVE  AlwaysFound'
<1> USE DEF AlwaysFound, TypeOK
<1>1. TypeOK /\ AlwaysFound
  BY DEF IInv
<1>2. ASSUME NEW c \in Client, GetCall(c) PROVE AlwaysFound'
  BY <1>1, <1>2 DEF GetCall
<1>3. ASSUME NEW c \in Client, SemWait(c) PROVE AlwaysFound'
  BY <1>1, <1>3 DEF SemWait
<1>4. ASSUME NEW c \in Client, SemTimeout(c) PROVE AlwaysFound'
  BY <1>1, <1>4 DEF SemTimeout
<1>5. ASSUME NEW c \in Client, TryLockFree(c) PROVE AlwaysFound'
  BY <1>1, <1>5 DEF TryLockFree
<1>6. ASSUME NEW c \in Client, TryLockBusy(c) PROVE AlwaysFound'
  BY <1>1, <1>6, LastIsFree DEF TryLockBusy
<1>7. ASSUME NEW c \in Client, RelUnlock(c) PROVE AlwaysFound'
  BY <1>1, <1>7 DEF RelUnlock
<1>8. ASSUME NEW c \in Client, RelPost(c) PROVE AlwaysFound'
  BY <1>1, <1>8 DEF RelPost
<1>9. CASE UNCHANGED vars
  BY <1>1, <1>9 DEF vars
<1> QED
  BY <1>2, <1>3, <1>4, <1>5, <1>6, <1>7, <1>8, <1>9 DEF Next

(* A set that changes by one element. *)
LEMMA CardAdd ==
  ASSUME NEW S, NEW x, IsFiniteSet(S), x \notin S
  PROVE  /\ Cardinality(S) \in Nat
         /\ IsFiniteSet(S \cup {x})
         /\ Cardinality(S \cup {x}) = Cardinality(S) + 1
BY FS_AddElement, FS_CardinalityType

(* ... and a set that loses one. *)
LEMMA CardRemove ==
  ASSUME NEW S, NEW x, IsFiniteSet(S), x \in S
  PROVE  /\ Cardinality(S) \in Nat
         /\ IsFiniteSet(S \ {x})
         /\ Cardinality(S \ {x}) \in Nat
         /\ Cardinality(S \ {x}) = Cardinality(S) - 1
BY FS_RemoveElement, FS_CardinalityType

(* The tokens follow the unlocked connections through every step: the two  *)
(* sides of TokensMatchFree move together.                                 *)
LEMMA TokensStep ==
  ASSUME IInv, [Next]_vars
  PROVE  TokensMatchFree'
<1> USE NConnAssumption, ClientAssumption DEF TypeOK, Conn
<1>1. TypeOK /\ OwnersAgree /\ TokensMatchFree /\ AlwaysFound
  BY DEF IInv
<1>2. 1 \in Conn
  OBVIOUS
<1>3. /\ IsFiniteSet(Scanning) /\ Cardinality(Scanning) \in Nat
      /\ IsFiniteSet(Posting) /\ Cardinality(Posting) \in Nat
      /\ IsFiniteSet(FreeFrom(1)) /\ Cardinality(FreeFrom(1)) \in Nat
  BY <1>2, Finiteness, FS_CardinalityType
<1>4. sem + Cardinality(Scanning) + Cardinality(Posting) = Cardinality(FreeFrom(1))
  BY <1>1 DEF TokensMatchFree
<1>5. ASSUME NEW c \in Client, GetCall(c) PROVE TokensMatchFree'
  <2>1. /\ Scanning' = Scanning /\ Posting' = Posting
        /\ FreeFrom(1)' = FreeFrom(1) /\ sem' = sem
    BY <1>1, <1>5 DEF GetCall, Scanning, Posting, FreeFrom
  <2> QED
    BY <1>4, <2>1 DEF TokensMatchFree
<1>6. ASSUME NEW c \in Client, SemWait(c) PROVE TokensMatchFree'
  <2>1. /\ c \notin Scanning
        /\ Scanning' = Scanning \cup {c} /\ Posting' = Posting
        /\ FreeFrom(1)' = FreeFrom(1) /\ sem' = sem - 1
    BY <1>1, <1>6 DEF SemWait, Scanning, Posting, FreeFrom
  <2>2. Cardinality(Scanning') = Cardinality(Scanning) + 1
    BY <1>3, <2>1, CardAdd
  <2> QED
    BY <1>1, <1>3, <1>4, <2>1, <2>2 DEF TokensMatchFree
<1>7. ASSUME NEW c \in Client, SemTimeout(c) PROVE TokensMatchFree'
  <2>1. /\ Scanning' = Scanning /\ Posting' = Posting
        /\ FreeFrom(1)' = FreeFrom(1) /\ sem' = sem
    BY <1>1, <1>7 DEF SemTimeout, Scanning, Posting, FreeFrom
  <2> QED
    BY <1>4, <2>1 DEF TokensMatchFree
<1>8. ASSUME NEW c \in Client, TryLockFree(c) PROVE TokensMatchFree'
  <2>1. /\ c \in Scanning /\ pos[c] \in FreeFrom(1)
        /\ Scanning' = Scanning \ {c} /\ Posting' = Posting
        /\ FreeFrom(1)' = FreeFrom(1) \ {pos[c]} /\ sem' = sem
    BY <1>1, <1>8 DEF TryLockFree, Scanning, Posting, FreeFrom
  <2>2. /\ Cardinality(Scanning') = Cardinality(Scanning) - 1
        /\ Cardinality(FreeFrom(1)') = Cardinality(FreeFrom(1)) - 1
    BY <1>3, <2>1, CardRemove
  <2> QED
    BY <1>1, <1>3, <1>4, <2>1, <2>2 DEF TokensMatchFree
<1>9. ASSUME NEW c \in Client, TryLockBusy(c) PROVE TokensMatchFree'
  <2>1. pos[c] # NConn
    BY <1>9, LastIsFree DEF TryLockBusy
  <2>2. /\ Scanning' = Scanning /\ Posting' = Posting
        /\ FreeFrom(1)' = FreeFrom(1) /\ sem' = sem
    BY <1>1, <1>9, <2>1 DEF TryLockBusy, Scanning, Posting, FreeFrom
  <2> QED
    BY <1>4, <2>2 DEF TokensMatchFree
<1>10. ASSUME NEW c \in Client, RelUnlock(c) PROVE TokensMatchFree'
  <2>1. held[c] \in Conn /\ lock[held[c]] = c
    BY <1>1, <1>10 DEF RelUnlock, OwnersAgree
  <2>2. /\ c \notin Posting /\ held[c] \notin FreeFrom(1)
        /\ Scanning' = Scanning /\ Posting' = Posting \cup {c}
        /\ FreeFrom(1)' = FreeFrom(1) \cup {held[c]} /\ sem' = sem
    BY <1>1, <1>10, <2>1 DEF RelUnlock, Scanning, Posting, FreeFrom
  <2>3. /\ Cardinality(Posting') = Cardinality(Posting) + 1
        /\ Cardinality(FreeFrom(1)') = Cardinality(FreeFrom(1)) + 1
    BY <1>3, <2>2, CardAdd
  <2> QED
    BY <1>1, <1>3, <1>4, <2>2, <2>3 DEF TokensMatchFree
<1>11. ASSUME NEW c \in Client, RelPost(c) PROVE TokensMatchFree'
  <2>1. /\ c \in Posting
        /\ Scanning' = Scanning /\ Posting' = Posting \ {c}
        /\ FreeFrom(1)' = FreeFrom(1) /\ sem' = sem + 1
    BY <1>1, <1>11 DEF RelPost, Scanning, Posting, FreeFrom
  <2>2. Cardinality(Posting') = Cardinality(Posting) - 1
    BY <1>3, <2>1, CardRemove
  <2> QED
    BY <1>1, <1>3, <1>4, <2>1, <2>2 DEF TokensMatchFree
<1>12. CASE UNCHANGED vars
  BY <1>1, <1>12 DEF vars, TokensMatchFree, Scanning, Posting, FreeFrom
<1> QED
  BY <1>5, <1>6, <1>7, <1>8, <1>9, <1>10, <1>11, <1>12 DEF Next

(* The walkers with connections from k on to try, and the free ones there: *)
(* a walk that starts is covered by its token, a step past a busy          *)
(* connection leaves behind no free one, and a connection is taken only by *)
(* a walker that is counted wherever the connection is.                    *)
LEMMA RoomStep ==
  ASSUME IInv, [Next]_vars
  PROVE  WalkersHaveRoom'
<1> SUFFICES ASSUME NEW k \in Conn
             PROVE  Cardinality(ScanningFrom(k)') <= Cardinality(FreeFrom(k)')
  BY DEF WalkersHaveRoom
<1> USE NConnAssumption, ClientAssumption DEF TypeOK, Conn
<1> DEFINE Goal == Cardinality(ScanningFrom(k)') <= Cardinality(FreeFrom(k)')
<1>1. TypeOK /\ OwnersAgree /\ WalkersHaveRoom
  BY DEF IInv
<1>2. /\ IsFiniteSet(ScanningFrom(k)) /\ Cardinality(ScanningFrom(k)) \in Nat
      /\ IsFiniteSet(FreeFrom(k)) /\ Cardinality(FreeFrom(k)) \in Nat
  BY Finiteness, FS_CardinalityType
<1>3. Cardinality(ScanningFrom(k)) <= Cardinality(FreeFrom(k))
  BY <1>1 DEF WalkersHaveRoom
<1>4. CASE ScanningFrom(k)' = ScanningFrom(k) /\ FreeFrom(k)' = FreeFrom(k)
  BY <1>3, <1>4
<1>5. ASSUME NEW c \in Client, GetCall(c) PROVE Goal
  BY <1>1, <1>4, <1>5 DEF GetCall, ScanningFrom, Scanning, FreeFrom
<1>6. ASSUME NEW c \in Client, SemWait(c) PROVE Goal
  <2>1. CASE k = 1
    <3>1. ScanningFrom(1)' = Scanning' /\ 1 \in Conn
      BY <1>1, <1>6 DEF SemWait, ScanningFrom, Scanning
    <3>2. /\ Cardinality(Scanning') \in Nat /\ Cardinality(Posting') \in Nat
          /\ Cardinality(FreeFrom(1)') \in Nat /\ sem' \in Nat
      BY <3>1, Finiteness2, FS_CardinalityType, TypeStep
    <3>3. sem' + Cardinality(Scanning') + Cardinality(Posting') = Cardinality(FreeFrom(1)')
      BY TokensStep DEF TokensMatchFree
    <3> QED
      BY <2>1, <3>1, <3>2, <3>3
  <2>2. CASE k # 1
    <3>1. ScanningFrom(k)' = ScanningFrom(k) /\ FreeFrom(k)' = FreeFrom(k)
      BY <1>1, <1>6, <2>2 DEF SemWait, ScanningFrom, Scanning, FreeFrom
    <3> QED
      BY <1>4, <3>1
  <2> QED
    BY <2>1, <2>2
<1>7. ASSUME NEW c \in Client, SemTimeout(c) PROVE Goal
  BY <1>1, <1>4, <1>7 DEF SemTimeout, ScanningFrom, Scanning, FreeFrom
<1>8. ASSUME NEW c \in Client, TryLockFree(c) PROVE Goal
  <2>1. CASE k <= pos[c]
    <3>1. /\ c \in ScanningFrom(k) /\ pos[c] \in FreeFrom(k)
          /\ ScanningFrom(k)' = ScanningFrom(k) \ {c}
          /\ FreeFrom(k)' = FreeFrom(k) \ {pos[c]}
      BY <1>1, <1>8, <2>1 DEF TryLockFree, ScanningFrom, Scanning, FreeFrom
    <3>2. /\ Cardinality(ScanningFrom(k)') = Cardinality(ScanningFrom(k)) - 1
          /\ Cardinality(FreeFrom(k)') = Cardinality(FreeFrom(k)) - 1
      BY <1>2, <3>1, CardRemove
    <3> QED
      BY <1>2, <1>3, <3>2
  <2>2. CASE ~ (k <= pos[c])
    <3>1. ScanningFrom(k)' = ScanningFrom(k) /\ FreeFrom(k)' = FreeFrom(k)
      BY <1>1, <1>8, <2>2 DEF TryLockFree, ScanningFrom, Scanning, FreeFrom
    <3> QED
      BY <1>4, <3>1
  <2> QED
    BY <2>1, <2>2
<1>9. ASSUME NEW c \in Client, TryLockBusy(c) PROVE Goal
  <2>1. pos[c] # NConn
    BY <1>9, LastIsFree DEF TryLockBusy
  <2>2. pc' = pc /\ lock' = lock /\ pos' = [pos EXCEPT ![c] = pos[c] + 1]
    BY <1>9, <2>1 DEF TryLockBusy
  <2>3. FreeFrom(k)' = FreeFrom(k)
    BY <2>2 DEF FreeFrom
  <2>4. CASE k = pos[c] + 1
    <3> DEFINE p == pos[c]
    <3>1. p \in Conn /\ lock[p] # NoOne
      BY <1>1, <1>9 DEF TryLockBusy
    <3>2. FreeFrom(k) = FreeFrom(p)
      BY <2>4, <3>1 DEF FreeFrom
    <3>3. ScanningFrom(k)' \subseteq ScanningFrom(p)
      BY <1>1, <1>9, <2>2, <2>4, <3>1 DEF TryLockBusy, ScanningFrom, Scanning
    <3>4. /\ IsFiniteSet(ScanningFrom(p))
          /\ Cardinality(ScanningFrom(p)) \in Nat
          /\ Cardinality(ScanningFrom(p)) <= Cardinality(FreeFrom(p))
      BY <1>1, <3>1, Finiteness, FS_CardinalityType DEF WalkersHaveRoom
    <3>5. /\ Cardinality(ScanningFrom(k)') <= Cardinality(ScanningFrom(p))
          /\ Cardinality(ScanningFrom(k)') \in Nat
      BY <3>3, <3>4, FS_Subset, FS_CardinalityType
    <3> HIDE DEF p
    <3> QED
      BY <1>2, <2>3, <3>2, <3>4, <3>5
  <2>5. CASE k # pos[c] + 1
    <3>1. ScanningFrom(k)' = ScanningFrom(k)
      BY <1>1, <1>9, <2>2, <2>5 DEF TryLockBusy, ScanningFrom, Scanning
    <3> QED
      BY <1>4, <2>3, <3>1
  <2> QED
    BY <2>4, <2>5
<1>10. ASSUME NEW c \in Client, RelUnlock(c) PROVE Goal
  <2>1. held[c] \in Conn /\ lock[held[c]] = c
    BY <1>1, <1>10 DEF RelUnlock, OwnersAgree
  <2>2. ScanningFrom(k)' = ScanningFrom(k)
    BY <1>1, <1>10 DEF RelUnlock, ScanningFrom, Scanning
  <2>3. FreeFrom(k) \subseteq FreeFrom(k)'
    BY <1>1, <1>10, <2>1 DEF RelUnlock, FreeFrom
  <2>4. /\ Cardinality(FreeFrom(k)) <= Cardinality(FreeFrom(k)')
        /\ Cardinality(FreeFrom(k)') \in Nat
    BY <2>3, Finiteness2, FS_Subset, FS_CardinalityType
  <2> QED
    BY <1>2, <1>3, <2>2, <2>4
<1>11. ASSUME NEW c \in Client, RelPost(c) PROVE Goal
  BY <1>1, <1>4, <1>11 DEF RelPost, ScanningFrom, Scanning, FreeFrom
<1>12. CASE UNCHANGED vars
  BY <1>4, <1>12 DEF vars, ScanningFrom, Scanning, FreeFrom
<1> QED
  BY <1>5, <1>6, <1>7, <1>8, <1>9, <1>10, <1>11, <1>12 DEF Next

-----------------------------------------------------------------------------
(* The theorems. *)

(* The five invariants hold of every pool, whatever its size and however   *)
(* many threads use it.                                                    *)
THEOREM Invariance == Spec => []IInv
<1>1. IInv /\ [Next]_vars => IInv'
  BY TypeStep, OwnersStep, TokensStep, RoomStep, FoundStep DEF IInv
<1> QED
  BY InitIInv, <1>1, PTL DEF Spec

(* Type correctness of get and rel's variables. *)
THEOREM TypeCorrect == Spec => []TypeOK
<1>1. IInv => TypeOK
  BY DEF IInv
<1> QED
  BY Invariance, <1>1, PTL

(* pcrf_db_pool_get never returns -2222: a thread that was granted a token *)
(* finds a connection on its one pass over the list.                       *)
THEOREM GetFindsConnection == Spec => []AlwaysFound
<1>1. IInv => AlwaysFound
  BY DEF IInv
<1> QED
  BY Invariance, <1>1, PTL

(* No thread's walk can be overtaken by the others so that it ends up with *)
(* less to try than there are walkers to serve.                            *)
THEOREM WalkersAreServed == Spec => []WalkersHaveRoom
<1>1. IInv => WalkersHaveRoom
  BY DEF IInv
<1> QED
  BY Invariance, <1>1, PTL

(* No token and no connection is ever lost between get and rel. *)
THEOREM NothingLeaks == Spec => []TokensMatchFree
<1>1. IInv => TokensMatchFree
  BY DEF IInv
<1> QED
  BY Invariance, <1>1, PTL

(* Two threads never hold one connection. *)
THEOREM ExclusiveOwnership == Spec => []OwnersAgree
<1>1. IInv => OwnersAgree
  BY DEF IInv
<1> QED
  BY Invariance, <1>1, PTL

-----------------------------------------------------------------------------
(* The pool implements the promise of module ConnPool. *)

Waiting == {c \in Client : pc[c] = "waiting"}
Admitted == {c \in Client : pc[c] \in {"scanning", "holding", "posting"}}

(* Who is admitted holds a token: this is what turns the test of the       *)
(* semaphore into ConnPool's count of the admitted clients.                *)
AdmittedHoldTokens ==
  /\ sem + Cardinality(Admitted) = NConn
  /\ IsFiniteSet(Admitted)

(* At first nobody is admitted and every token is there. *)
LEMMA AdmittedInit == Init => AdmittedHoldTokens
<1>1. Init => Admitted = {}
  BY DEF Init, Admitted
<1> QED
  BY <1>1, FS_EmptySet, NConnAssumption DEF Init, AdmittedHoldTokens

(* sem_timedwait takes a token for the client it admits, rel's sem_post is *)
(* the last step of a client that leaves.                                  *)
LEMMA AdmittedStep ==
  ASSUME IInv, AdmittedHoldTokens, [Next]_vars
  PROVE  AdmittedHoldTokens'
<1> USE NConnAssumption, ClientAssumption DEF TypeOK, Conn
<1>1. TypeOK
  BY DEF IInv
<1>2. /\ IsFiniteSet(Admitted) /\ Cardinality(Admitted) \in Nat
      /\ sem + Cardinality(Admitted) = NConn
  BY FS_CardinalityType DEF AdmittedHoldTokens
<1>3. CASE sem' = sem /\ Admitted' = Admitted
  BY <1>2, <1>3 DEF AdmittedHoldTokens
<1>4. ASSUME NEW c \in Client, GetCall(c) PROVE AdmittedHoldTokens'
  BY <1>1, <1>3, <1>4 DEF GetCall, Admitted
<1>5. ASSUME NEW c \in Client, SemWait(c) PROVE AdmittedHoldTokens'
  <2>1. c \notin Admitted /\ Admitted' = Admitted \cup {c} /\ sem' = sem - 1
    BY <1>1, <1>5 DEF SemWait, Admitted
  <2>2. /\ Cardinality(Admitted') = Cardinality(Admitted) + 1
        /\ IsFiniteSet(Admitted')
    BY <1>2, <2>1, CardAdd
  <2> QED
    BY <1>1, <1>2, <2>1, <2>2 DEF AdmittedHoldTokens
<1>6. ASSUME NEW c \in Client, SemTimeout(c) PROVE AdmittedHoldTokens'
  BY <1>1, <1>3, <1>6 DEF SemTimeout, Admitted
<1>7. ASSUME NEW c \in Client, TryLockFree(c) PROVE AdmittedHoldTokens'
  BY <1>1, <1>3, <1>7 DEF TryLockFree, Admitted
<1>8. ASSUME NEW c \in Client, TryLockBusy(c) PROVE AdmittedHoldTokens'
  <2>1. pos[c] # NConn
    BY <1>8, LastIsFree DEF TryLockBusy
  <2> QED
    BY <1>1, <1>3, <1>8, <2>1 DEF TryLockBusy, Admitted
<1>9. ASSUME NEW c \in Client, RelUnlock(c) PROVE AdmittedHoldTokens'
  BY <1>1, <1>3, <1>9 DEF RelUnlock, Admitted
<1>10. ASSUME NEW c \in Client, RelPost(c) PROVE AdmittedHoldTokens'
  <2>1. c \in Admitted /\ Admitted' = Admitted \ {c} /\ sem' = sem + 1
    BY <1>1, <1>10 DEF RelPost, Admitted
  <2>2. /\ Cardinality(Admitted') = Cardinality(Admitted) - 1
        /\ IsFiniteSet(Admitted')
    BY <1>2, <2>1, CardRemove
  <2> QED
    BY <1>1, <1>2, <2>1, <2>2 DEF AdmittedHoldTokens
<1>11. CASE UNCHANGED vars
  BY <1>3, <1>11 DEF vars, Admitted
<1> QED
  BY <1>4, <1>5, <1>6, <1>7, <1>8, <1>9, <1>10, <1>11 DEF Next

(* ConnPool counts with the Cardinality it was given through INSTANCE. *)
LEMMA SameCardinality ==
  ASSUME NEW S
  PROVE  CP!Cardinality(S) = Cardinality(S)
BY DEF CP!Cardinality, Cardinality

(* The pool of the code starts as the abstract one does. *)
LEMMA RefinedInit == Init => CP!Init
BY DEF Init, CP!Init

(* Every step of get and rel is a step of the abstract pool; a step of the *)
(* walk past a busy connection is none.                                    *)
LEMMA RefinedStep ==
  ASSUME IInv, AdmittedHoldTokens, [Next]_vars
  PROVE  [CP!Next]_(CP!vars)
<1> USE NConnAssumption, ClientAssumption DEF TypeOK, Conn
<1>1. TypeOK /\ OwnersAgree
  BY DEF IInv
<1>2. /\ Cardinality(Admitted) \in Nat
      /\ sem + Cardinality(Admitted) = NConn
  BY FS_CardinalityType DEF AdmittedHoldTokens
<1>3. CASE Waiting' = Waiting /\ Admitted' = Admitted /\ held' = held
  BY <1>3 DEF CP!vars, Waiting, Admitted
<1>4. ASSUME NEW c \in Client, GetCall(c) PROVE CP!Next
  <2>1. CP!Ask(c)
    BY <1>1, <1>4 DEF GetCall, CP!Ask
  <2> QED
    BY <2>1 DEF CP!Next
<1>5. ASSUME NEW c \in Client, SemWait(c) PROVE CP!Next
  <2>1. Cardinality(Admitted) < NConn
    BY <1>1, <1>2, <1>5 DEF SemWait
  <2>2. CP!Admit(c)
    BY <1>1, <1>5, <2>1, SameCardinality DEF SemWait, CP!Admit, Admitted
  <2> QED
    BY <2>2 DEF CP!Next
<1>6. ASSUME NEW c \in Client, SemTimeout(c) PROVE CP!Next
  <2>1. Cardinality(Admitted) = NConn
    BY <1>1, <1>2, <1>6 DEF SemTimeout
  <2>2. CP!Refuse(c)
    BY <1>1, <1>6, <2>1, SameCardinality DEF SemTimeout, CP!Refuse, Admitted
  <2> QED
    BY <2>2 DEF CP!Next
<1>7. ASSUME NEW c \in Client, TryLockFree(c) PROVE CP!Next
  <2>1. pos[c] \in CP!Conn /\ held[c] = 0
    BY <1>1, <1>7 DEF TryLockFree, OwnersAgree, CP!Conn
  <2>2. \A d \in Client : held[d] # pos[c]
    BY <1>1, <1>7 DEF TryLockFree, OwnersAgree
  <2>3. CP!Give(c, pos[c])
    BY <1>1, <1>7, <2>1, <2>2 DEF TryLockFree, CP!Give
  <2> QED
    BY <2>1, <2>3 DEF CP!Next
<1>8. ASSUME NEW c \in Client, TryLockBusy(c) PROVE UNCHANGED CP!vars
  <2>1. pos[c] # NConn
    BY <1>8, LastIsFree DEF TryLockBusy
  <2> QED
    BY <1>3, <1>8, <2>1 DEF TryLockBusy, CP!vars
<1>9. ASSUME NEW c \in Client, RelUnlock(c) PROVE CP!Next
  <2>1. CP!TakeBack(c)
    BY <1>1, <1>9 DEF RelUnlock, OwnersAgree, CP!TakeBack
  <2> QED
    BY <2>1 DEF CP!Next
<1>10. ASSUME NEW c \in Client, RelPost(c) PROVE CP!Next
  <2>1. CP!Leave(c)
    BY <1>1, <1>10 DEF RelPost, OwnersAgree, CP!Leave
  <2> QED
    BY <2>1 DEF CP!Next
<1>11. CASE UNCHANGED vars
  BY <1>11 DEF vars, CP!vars
<1> QED
  BY <1>4, <1>5, <1>6, <1>7, <1>8, <1>9, <1>10, <1>11 DEF Next

(* A pool of any size refuses a client only when it is full, and gives     *)
(* every client it lets in a connection of its own.                        *)
THEOREM Implementation == Spec => ImplementsConnPool
<1>1. Init => AdmittedHoldTokens /\ CP!Init
  BY AdmittedInit, RefinedInit
<1>2. IInv /\ AdmittedHoldTokens /\ [Next]_vars => AdmittedHoldTokens' /\ [CP!Next]_(CP!vars)
  BY AdmittedStep, RefinedStep
<1> QED
  BY Invariance, <1>1, <1>2, PTL DEF Spec, ImplementsConnPool, CP!Spec

=============================================================================
