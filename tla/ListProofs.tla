----------------------------- MODULE ListProofs -----------------------------
(***************************************************************************)
(* Lemmas about the lists that other models pick entries from: what is     *)
(* left is a list again, and has exactly the entries at those positions.   *)
(***************************************************************************)
EXTENDS Lists, FiniteSetTheorems, TLAPS

(* Ranking numbers the positions from 1 without gaps. *)
LEMMA Ranking ==
  ASSUME NEW n \in Nat, NEW positions \in SUBSET (1..n)
  PROVE  /\ IsFiniteSet(positions)
         /\ Cardinality(positions) \in Nat
         /\ \A i \in positions :
              Rank(positions, i) \in 1..Cardinality(positions)
         /\ \A j \in 1..Cardinality(positions) :
              \E i \in positions : Rank(positions, i) = j
         /\ \A i, k \in positions :
              Rank(positions, i) = Rank(positions, k) => i = k
<1> DEFINE upto(i) == {k \in positions : k <= i}
           f == [i \in positions |-> Rank(positions, i)]
<1>1. IsFiniteSet(positions) /\ Cardinality(positions) \in Nat
  <2>1. IsFiniteSet(1..n)
    BY FS_Interval
  <2>2. IsFiniteSet(positions)
    BY <2>1, FS_Subset
  <2> QED BY <2>2, FS_CardinalityType
<1>2. ASSUME NEW i \in positions
      PROVE  /\ IsFiniteSet(upto(i))
             /\ Rank(positions, i) \in 1..Cardinality(positions)
  <2>1. upto(i) \subseteq positions /\ i \in upto(i)
    OBVIOUS
  <2>2. /\ IsFiniteSet(upto(i))
        /\ Cardinality(upto(i)) \in Nat
        /\ Cardinality(upto(i)) <= Cardinality(positions)
    BY <1>1, <2>1, FS_Subset, FS_CardinalityType
  <2>3. Cardinality(upto(i)) # 0
    BY <2>1, <2>2, FS_EmptySet
  <2> QED BY <1>1, <2>2, <2>3 DEF Rank
<1>3. ASSUME NEW i \in positions, NEW k \in positions, i < k
      PROVE  Rank(positions, i) # Rank(positions, k)
  <2>1. upto(i) \subseteq upto(k) /\ upto(i) # upto(k)
    <3>1. \A l \in positions : l \in Nat
      OBVIOUS
    <3>2. k \in upto(k) /\ k \notin upto(i)
      BY <1>3, <3>1
    <3>3. \A l \in positions : l <= i => l <= k
      BY <1>3, <3>1
    <3> QED BY <3>2, <3>3
  <2>2. Cardinality(upto(i)) < Cardinality(upto(k))
    BY <1>2, <2>1, FS_Subset, FS_CardinalityType
  <2>3. Cardinality(upto(i)) \in Nat /\ Cardinality(upto(k)) \in Nat
    BY <1>2, FS_CardinalityType
  <2> QED BY <2>2, <2>3 DEF Rank
<1>a. \A i, k \in positions :
        Rank(positions, i) = Rank(positions, k) => i = k
  <2>1. \A i, k \in positions : i < k \/ k < i \/ i = k
    OBVIOUS
  <2> QED BY <1>3, <2>1
<1>4. f \in Injection(positions, 1..Cardinality(positions))
  <2>1. f \in [positions -> 1..Cardinality(positions)]
    BY <1>2
  <2>2. \A i, k \in positions : f[i] = f[k] => i = k
    BY <1>a
  <2> QED BY <2>1, <2>2 DEF Injection, IsInjective
<1>5. /\ IsFiniteSet(1..Cardinality(positions))
      /\ Cardinality(1..Cardinality(positions)) = Cardinality(positions)
  BY <1>1, FS_Interval
<1>6. f \in Surjection(positions, 1..Cardinality(positions))
  BY <1>1, <1>4, <1>5, FS_Injection
<1> QED BY <1>1, <1>2, <1>a, <1>6 DEF Surjection

(* The entries at some positions of a list of S are a list of S, and no    *)
(* other entries are in it.                                                *)
LEMMA PickedList ==
  ASSUME NEW S, NEW list \in Seq(S), NEW positions \in SUBSET (DOMAIN list)
  PROVE  /\ Picked(list, positions) \in Seq(S)
         /\ Range(Picked(list, positions)) = {list[i] : i \in positions}
<1> DEFINE picked == Picked(list, positions)
           at(j) == CHOOSE i \in positions : Rank(positions, i) = j
<1>1. Len(list) \in Nat /\ positions \in SUBSET (1..Len(list))
  OBVIOUS
<1>2. /\ Cardinality(positions) \in Nat
      /\ \A i \in positions :
           Rank(positions, i) \in 1..Cardinality(positions)
      /\ \A j \in 1..Cardinality(positions) :
           \E i \in positions : Rank(positions, i) = j
  BY <1>1, Ranking
<1>3. \A j \in 1..Cardinality(positions) : at(j) \in positions
  BY <1>2
<1>4. DOMAIN picked = 1..Cardinality(positions)
  BY DEF Picked
<1>5. \A j \in 1..Cardinality(positions) : picked[j] = list[at(j)]
  BY DEF Picked
<1>6. \A i \in positions : \E j \in 1..Cardinality(positions) : at(j) = i
  <2>1. TAKE i \in positions
  <2>2. at(Rank(positions, i)) = i
    BY <1>2
  <2> QED BY <1>2, <2>2
<1>7. picked \in Seq(S)
  <2>1. \A i \in positions : list[i] \in S
    BY <1>1
  <2>2. picked = [j \in 1..Cardinality(positions) |-> picked[j]]
    BY DEF Picked
  <2>3. \A j \in 1..Cardinality(positions) : picked[j] \in S
    BY <1>3, <1>5, <2>1
  <2> HIDE DEF picked
  <2> QED BY <1>2, <2>2, <2>3
<1>8. Range(picked) = {list[i] : i \in positions}
  BY <1>3, <1>4, <1>5, <1>6 DEF Range
<1> QED BY <1>7, <1>8

(* What is left when every entry of x is erased has every other entry.     *)
LEMMA WithoutList ==
  ASSUME NEW S, NEW list \in Seq(S), NEW x
  PROVE  /\ Without(list, x) \in Seq(S)
         /\ Range(Without(list, x)) = Range(list) \ {x}
<1> DEFINE kept == {i \in DOMAIN list : list[i] # x}
<1>1. kept \in SUBSET (DOMAIN list)
  OBVIOUS
<1>2. {list[i] : i \in kept} = Range(list) \ {x}
  BY DEF Range
<1> QED BY <1>1, <1>2, PickedList DEF Without

(* An appended entry is one more of the entries. *)
LEMMA AppendedList ==
  ASSUME NEW S, NEW list \in Seq(S), NEW x \in S
  PROVE  /\ Append(list, x) \in Seq(S)
         /\ Range(Append(list, x)) = Range(list) \cup {x}
<1> DEFINE new == Append(list, x)
<1>1. /\ new \in Seq(S)
      /\ DOMAIN new = DOMAIN list \cup {Len(list) + 1}
      /\ new[Len(list) + 1] = x
      /\ \A i \in DOMAIN list : new[i] = list[i]
  OBVIOUS
<1> HIDE DEF new
<1>2. Range(new) = Range(list) \cup {x}
  BY <1>1 DEF Range
<1> QED BY <1>1, <1>2 DEF new

(* A list is a sequence of its entries. *)
LEMMA ListSequence ==
  ASSUME NEW x, IsList(x)
  PROVE  x \in Seq(Range(x)) /\ DOMAIN x = 1..Len(x) /\ Len(x) \in Nat
<1>1. Len(x) \in Nat /\ x = [i \in 1..Len(x) |-> x[i]]
  BY DEF IsList
<1>2. DOMAIN x = 1..Len(x)
  BY <1>1
<1>3. \A i \in 1..Len(x) : x[i] \in Range(x)
  BY <1>2 DEF Range
<1> QED BY <1>1, <1>2, <1>3

LEMMA SequenceList ==
  ASSUME NEW S, NEW x \in Seq(S)
  PROVE  IsList(x)
BY DEF IsList

LEMMA MappedList ==
  ASSUME NEW n \in Nat, NEW x, x = [i \in 1..n |-> x[i]]
  PROVE  IsList(x) /\ Len(x) = n /\ DOMAIN x = 1..n
<1>1. DOMAIN x = 1..n
  OBVIOUS
<1>2. \A i \in 1..n : x[i] \in Range(x)
  BY <1>1 DEF Range
<1>3. x \in Seq(Range(x))
  BY <1>2
<1>4. Len(x) = n
  BY <1>1, <1>3
<1> QED BY <1>1, <1>3, <1>4, SequenceList

(* The entries of two lists, one after the other *)
LEMMA JoinedList ==
  ASSUME NEW a, NEW b, IsList(a), IsList(b)
  PROVE  /\ IsList(a \o b)
         /\ DOMAIN (a \o b) = 1..(Len(a) + Len(b))
         /\ \A i \in DOMAIN a : i \in DOMAIN (a \o b) /\ (a \o b)[i] = a[i]
         /\ \A i \in DOMAIN b : /\ Len(a) + i \in DOMAIN (a \o b)
                               /\ (a \o b)[Len(a) + i] = b[i]
         /\ \A k \in DOMAIN (a \o b) :
              \/ k \in DOMAIN a /\ (a \o b)[k] = a[k]
              \/ k - Len(a) \in DOMAIN b /\ (a \o b)[k] = b[k - Len(a)]
<1> DEFINE S == Range(a) \cup Range(b)
<1>1. /\ DOMAIN a = 1..Len(a) /\ Len(a) \in Nat
      /\ DOMAIN b = 1..Len(b) /\ Len(b) \in Nat
      /\ a \in Seq(Range(a)) /\ b \in Seq(Range(b))
  BY ListSequence
<1>2. a \in Seq(S) /\ b \in Seq(S)
  BY <1>1
<1>3. a \o b \in Seq(S)
  BY <1>2
<1> HIDE DEF S
<1>4. DOMAIN (a \o b) = 1..(Len(a) + Len(b))
  BY <1>2, <1>3
<1>5. \A i \in 1..(Len(a) + Len(b)) :
        (a \o b)[i] = IF i <= Len(a) THEN a[i] ELSE b[i - Len(a)]
  BY <1>2, <1>3
<1>6. \A i \in DOMAIN a : i \in DOMAIN (a \o b) /\ (a \o b)[i] = a[i]
  BY <1>1, <1>4, <1>5
<1>7. \A i \in DOMAIN b : /\ Len(a) + i \in DOMAIN (a \o b)
                         /\ (a \o b)[Len(a) + i] = b[i]
  <2>1. TAKE i \in DOMAIN b
  <2>2. i \in Nat /\ i >= 1 /\ i <= Len(b)
    BY <1>1
  <2>3. Len(a) + i \in 1..(Len(a) + Len(b)) /\ ~(Len(a) + i <= Len(a))
        /\ (Len(a) + i) - Len(a) = i
    BY <1>1, <2>2
  <2> QED BY <1>4, <1>5, <2>3
<1>8. \A k \in DOMAIN (a \o b) :
        \/ k \in DOMAIN a /\ (a \o b)[k] = a[k]
        \/ k - Len(a) \in DOMAIN b /\ (a \o b)[k] = b[k - Len(a)]
  <2>1. TAKE k \in DOMAIN (a \o b)
  <2>2. k \in 1..(Len(a) + Len(b))
    BY <1>4
  <2>3. CASE k <= Len(a)
    BY <1>1, <1>5, <2>2, <2>3
  <2>4. CASE ~(k <= Len(a))
    <3>1. k - Len(a) \in 1..Len(b)
      BY <1>1, <2>2, <2>4
    <3> QED BY <1>1, <1>5, <2>2, <2>4, <3>1
  <2> QED BY <2>3, <2>4
<1> QED BY <1>3, <1>4, <1>6, <1>7, <1>8, SequenceList

LEMMA PickedIsList ==
  ASSUME NEW list, IsList(list), NEW positions \in SUBSET (DOMAIN list)
  PROVE  /\ IsList(Picked(list, positions))
         /\ \A j \in DOMAIN Picked(list, positions) :
              \E i \in positions : Picked(list, positions)[j] = list[i]
         /\ \A i \in positions : \E j \in DOMAIN Picked(list, positions) :
              Picked(list, positions)[j] = list[i]
<1>1. list \in Seq(Range(list))
  BY ListSequence
<1> DEFINE picked == Picked(list, positions)
<1>2. /\ picked \in Seq(Range(list))
      /\ Range(picked) = {list[i] : i \in positions}
  BY <1>1, PickedList
<1> HIDE DEF picked
<1>3. IsList(picked)
  BY <1>2, SequenceList
<1>4. \A j \in DOMAIN picked : \E i \in positions : picked[j] = list[i]
  BY <1>2 DEF Range
<1>5. \A i \in positions : \E j \in DOMAIN picked : picked[j] = list[i]
  BY <1>2 DEF Range
<1> QED BY <1>3, <1>4, <1>5 DEF picked

(* A list has finitely many entries. *)
LEMMA FiniteList ==
  ASSUME NEW x, IsList(x), NEW S, \A s \in S : \E i \in DOMAIN x : x[i] = s
  PROVE  IsFiniteSet(S)
<1>1. DOMAIN x = 1..Len(x) /\ Len(x) \in Nat
  BY ListSequence
<1>2. IsFiniteSet(DOMAIN x)
  BY <1>1, FS_Interval
<1> DEFINE at == [s \in S |-> CHOOSE i \in DOMAIN x : x[i] = s]
<1>3. at \in Injection(S, DOMAIN x)
  <2>1. at \in [S -> DOMAIN x] /\ \A s \in S : x[at[s]] = s
    OBVIOUS
  <2> HIDE DEF at
  <2>2. \A s, r \in S : at[s] = at[r] => s = r
    BY <2>1
  <2> QED BY <2>1, <2>2 DEF Injection, IsInjective
<1> QED BY <1>2, <1>3, FS_Injection
=============================================================================
