---------------------------- MODULE BesideProofs ----------------------------
(***************************************************************************)
(* Proofs about the three parts of Beside.                                 *)
(*                                                                         *)
(* The pool of visited marks, for every tag width, list size and number of *)
(* threads: an element is marked by the search that visited it and by no   *)
(* earlier one, since no mark exceeds the tag of its list (IndInv).        *)
(*                                                                         *)
(* The searches with a stop condition: each point the search adds to its   *)
(* heap or removes from it moves the condition's account as it moves the   *)
(* number of points and of documents in the heap (AccountAdds,             *)
(* AccountForgets).  The filter removes the entry at the top of the        *)
(* account's own heap, which is the one of the search's farthest point,    *)
(* because no two distances are equal (TopIs).  What such a search returns *)
(* is all it has seen up to a distance (PrefixKept), and at its end it has *)
(* seen all it can reach (ReachKept, EntryKept), if the condition is wide  *)
(* enough or every element is a neighbour of the entry point.              *)
(*                                                                         *)
(* The brute force index: between calls its slots and its dictionary are   *)
(* one to one, and a slot has the point stored for its label unless an add *)
(* is about to copy it (DictKept).  A search goes through the slots, and   *)
(* what it keeps are the nearest of those behind it (Best).                *)
(***************************************************************************)
EXTENDS Beside, FiniteSetTheorems, WellFoundedInduction, TLAPS

(* Marks never exceed the tag of their list; that is true of uninitialised *)
(* memory as well, because a new list starts at the largest tag.           *)
MarksBelowTag ==
  /\ \A x \in List, e \in Element : mass[x][e] <= curV[x]
  /\ \A x \in List : x > created => curV[x] = MaxTag

(* Every list is in the pool, in use or lost. *)
NoListLeaked == \A x \in 1..created : InPool(x) \/ InUse(x) \/ x \in lost

FewLists == created <= Cardinality(Thread) + Cardinality(lost)

Holding ==
  /\ \A t \in Thread : pc[t] = "idle" <=> holds[t] = NoList
  /\ \A x \in lost : ~InPool(x) /\ ~InUse(x)
  /\ Cardinality(lost) <= MaxLost

IndInv ==
  /\ TypeOK
  /\ ListsExclusive
  /\ VisitedExact
  /\ NoListLeaked
  /\ FewLists
  /\ MarksBelowTag
  /\ Holding

-----------------------------------------------------------------------------
(* When the pool is empty and some thread is idle, there are fewer lists   *)
(* than threads and losses: a new one still has a number.                  *)
LEMMA RoomForOne ==
  ASSUME IndInv, NEW t \in Thread, pc[t] = "idle", pool = <<>>
  PROVE  created + 1 <= Cardinality(Thread) + Cardinality(lost)
<1> DEFINE others == Thread \ {t}
           f == [u \in others |-> holds[u]]
           held == {f[u] : u \in others}
<1>1. IsFiniteSet(Thread) /\ Cardinality(Thread) \in Nat
  BY ConstantsAssumption, FS_CardinalityType
<1>2. IsFiniteSet(others) /\ Cardinality(others) = Cardinality(Thread) - 1
  BY <1>1, FS_RemoveElement
<1>3. f \in Surjection(others, held)
  BY DEF Surjection
<1>4. IsFiniteSet(held) /\ Cardinality(held) <= Cardinality(others)
  BY <1>2, <1>3, FS_Surjection
<1>5. created \in Nat /\ lost \in SUBSET (1..created)
  BY DEF IndInv, TypeOK, List
<1>6. /\ IsFiniteSet(1..created) /\ Cardinality(1..created) = created
      /\ IsFiniteSet(lost)
  <2>1. IsFiniteSet(1..created) /\ Cardinality(1..created) = created
    BY <1>5, FS_Interval
  <2>2. IsFiniteSet(lost)
    BY <1>5, <2>1, FS_Subset, Zenon
  <2> QED
    BY <2>1, <2>2
<1>7. /\ IsFiniteSet(held \union lost)
      /\ Cardinality(held \union lost) <= Cardinality(held) + Cardinality(lost)
  <2>1. IsFiniteSet(held \union lost)
    BY <1>4, <1>6, FS_Union
  <2>2. Cardinality(held \union lost)
          = Cardinality(held) + Cardinality(lost) - Cardinality(held \cap lost)
    BY <1>4, <1>6, FS_Union
  <2>3. IsFiniteSet(held \cap lost)
    BY <1>4, FS_Intersection
  <2>4. Cardinality(held \cap lost) \in Nat
    BY <2>3, FS_CardinalityType
  <2>5. Cardinality(held) \in Nat /\ Cardinality(lost) \in Nat
    BY <1>4, <1>6, FS_CardinalityType
  <2> QED
    BY <2>1, <2>2, <2>4, <2>5
<1>8. 1..created \in SUBSET (held \union lost)
  <2> SUFFICES ASSUME NEW x \in 1..created, x \notin lost PROVE x \in held
    OBVIOUS
  <2>1. ~InPool(x)
    BY DEF InPool
  <2>2. PICK u \in Thread : holds[u] = x
    BY <2>1 DEF IndInv, NoListLeaked, InUse
  <2>3. u # t
    BY <2>2 DEF IndInv, Holding, NoList
  <2> QED
    BY <2>2, <2>3
<1>9. created <= Cardinality(held \union lost)
  <2> HIDE DEF held
  <2>1. Cardinality(1..created) <= Cardinality(held \union lost)
    BY <1>7, <1>8, FS_Subset, Zenon
  <2> QED
    BY <1>6, <2>1
<1>10. /\ Cardinality(held) \in Nat /\ Cardinality(lost) \in Nat
       /\ Cardinality(held \union lost) \in Nat
  BY <1>4, <1>6, <1>7, FS_CardinalityType
<1> HIDE DEF held, others
<1> QED
  BY <1>1, <1>2, <1>4, <1>5, <1>7, <1>9, <1>10

-----------------------------------------------------------------------------
LEMMA InitInd == Init => IndInv
<1> SUFFICES ASSUME Init PROVE IndInv
  OBVIOUS
<1>1. Cardinality(Thread) \in Nat /\ Cardinality(Thread) >= 1
  BY ConstantsAssumption, FS_CardinalityType, FS_EmptySet
<1>2. 1 \in List /\ List \subseteq Nat /\ 0 \notin List
  BY <1>1, ConstantsAssumption DEF List
<1>3. mass \in [List -> [Element -> Tag]]
  BY <1>2, ConstantsAssumption DEF Init, Cleared, Tag
<1>4. TypeOK
  BY <1>2, <1>3, ConstantsAssumption DEF Init, TypeOK, Tag, NoList
<1>5. ListsExclusive /\ VisitedExact /\ NoListLeaked
  BY DEF Init, ListsExclusive, VisitedExact, NoListLeaked, InPool, NoList
<1>6. FewLists
  BY <1>1, FS_EmptySet DEF Init, FewLists
<1>7. MarksBelowTag
  BY <1>3, ConstantsAssumption DEF Init, MarksBelowTag, Tag
<1>8. Holding
  BY ConstantsAssumption, FS_EmptySet DEF Init, Holding
<1> QED
  BY <1>4, <1>5, <1>6, <1>7, <1>8 DEF IndInv

(* The two changes of the deque, in terms of what occurs in it. *)
Occurs(q, x) == \E i \in 1..Len(q) : q[i] = x
Distinct(q)  == \A i, j \in 1..Len(q) : q[i] = q[j] => i = j

LEMMA PopFacts ==
  ASSUME NEW S, NEW q \in Seq(S), q # <<>>, Distinct(q)
  PROVE  /\ Head(q) \in S /\ Occurs(q, Head(q))
         /\ Tail(q) \in Seq(S) /\ Distinct(Tail(q))
         /\ \A y : Occurs(Tail(q), y) <=> Occurs(q, y) /\ y # Head(q)
<1>1. /\ Len(q) \in Nat \ {0} /\ Head(q) = q[1]
      /\ Tail(q) \in Seq(S) /\ Len(Tail(q)) = Len(q) - 1
      /\ \A i \in 1..Len(Tail(q)) : Tail(q)[i] = q[i + 1]
  OBVIOUS
<1>2. Head(q) \in S /\ Occurs(q, Head(q))
  BY <1>1 DEF Occurs
<1>3. Distinct(Tail(q))
  BY <1>1 DEF Distinct
<1>4. ASSUME NEW y, Occurs(Tail(q), y) PROVE Occurs(q, y) /\ y # Head(q)
  BY <1>1, <1>4 DEF Occurs, Distinct
<1>5. ASSUME NEW y, Occurs(q, y), y # Head(q) PROVE Occurs(Tail(q), y)
  <2>1. PICK i \in 1..Len(q) : q[i] = y
    BY <1>5 DEF Occurs
  <2>2. i # 1
    BY <1>1, <1>5, <2>1
  <2>3. i - 1 \in 1..Len(Tail(q)) /\ Tail(q)[i - 1] = y
    BY <1>1, <2>1, <2>2
  <2> QED
    BY <2>3 DEF Occurs
<1> QED
  BY <1>1, <1>2, <1>3, <1>4, <1>5

LEMMA PushFacts ==
  ASSUME NEW S, NEW q \in Seq(S), NEW x \in S, Distinct(q), ~Occurs(q, x)
  PROVE  /\ <<x>> \o q \in Seq(S) /\ Distinct(<<x>> \o q)
         /\ \A y : Occurs(<<x>> \o q, y) <=> Occurs(q, y) \/ y = x
<1> DEFINE p == <<x>> \o q
<1>1. /\ p \in Seq(S) /\ Len(q) \in Nat /\ Len(p) = Len(q) + 1 /\ p[1] = x
      /\ \A i \in 1..Len(q) : p[i + 1] = q[i]
      /\ \A i \in 2..Len(p) : p[i] = q[i - 1] /\ i - 1 \in 1..Len(q)
  OBVIOUS
<1> HIDE DEF p
<1>2. \A i \in 1..Len(p) : i = 1 \/ i \in 2..Len(p)
  BY <1>1
<1>3. Distinct(p)
  <2> SUFFICES ASSUME NEW i \in 1..Len(p), NEW j \in 1..Len(p), p[i] = p[j]
               PROVE  i = j
    BY DEF Distinct
  <2>1. \A k \in 2..Len(p) : p[k] # x
    BY <1>1 DEF Occurs
  <2>2. CASE i = 1 \/ j = 1
    BY <1>1, <1>2, <2>1, <2>2
  <2>3. CASE i # 1 /\ j # 1
    <3>1. /\ i - 1 \in 1..Len(q) /\ j - 1 \in 1..Len(q)
          /\ q[i - 1] = q[j - 1]
      BY <1>1, <1>2, <2>3
    <3>2. i - 1 = j - 1
      BY <3>1 DEF Distinct
    <3> QED
      BY <3>2
  <2> QED
    BY <2>2, <2>3
<1>4. ASSUME NEW y, Occurs(p, y) PROVE Occurs(q, y) \/ y = x
  BY <1>1, <1>2, <1>4 DEF Occurs
<1>5. ASSUME NEW y, Occurs(q, y) PROVE Occurs(p, y)
  <2>1. PICK i \in 1..Len(q) : q[i] = y
    BY <1>5 DEF Occurs
  <2>2. i + 1 \in 1..Len(p) /\ p[i + 1] = y
    BY <1>1, <2>1
  <2> QED
    BY <2>2 DEF Occurs
<1>6. Occurs(p, x)
  BY <1>1 DEF Occurs
<1> QED
  BY <1>1, <1>3, <1>4, <1>5, <1>6 DEF p

LEMMA ListNumbers ==
  /\ Cardinality(Thread) \in Nat
  /\ List \subseteq Nat \ {0}
  /\ 0 \notin List
BY ConstantsAssumption, FS_CardinalityType DEF List

-----------------------------------------------------------------------------
(* Preservation, action by action. *)

LEMMA TakeInd ==
  ASSUME IndInv, NEW t \in Thread, Take(t)
  PROVE  IndInv'
<1> DEFINE x == holds'[t]
<1>1. /\ pc[t] = "idle" /\ holds[t] = NoList
      /\ pc' = [pc EXCEPT ![t] = "taken"]
      /\ UNCHANGED <<curV, visited, lost>>
  BY DEF Take, IndInv, Holding
<1>2. /\ created' \in List /\ created <= created'
      /\ mass' \in [List -> [Element -> Tag]]
      /\ x \in 1..created' /\ holds' = [holds EXCEPT ![t] = x]
      /\ ~InUse(x) /\ x \notin lost
      /\ pool' \in Seq(1..created') /\ Distinct(pool')
      /\ \A y : Occurs(pool', y) <=> Occurs(pool, y) /\ y # x
      /\ \A y \in 1..created' : y \in 1..created \/ y = x
  <2>1. CASE pool # <<>>
    <3>1. x = Head(pool) /\ pool' = Tail(pool) /\ created' = created /\ mass' = mass
      BY <2>1 DEF Take, IndInv, TypeOK
    <3>2. pool \in Seq(1..created) /\ Distinct(pool)
      BY DEF IndInv, TypeOK, ListsExclusive, Distinct
    <3>3. /\ x \in 1..created /\ Occurs(pool, x)
          /\ pool' \in Seq(1..created) /\ Distinct(pool')
          /\ \A y : Occurs(pool', y) <=> Occurs(pool, y) /\ y # x
      <4> DEFINE S == 1..created
      <4>1. pool \in Seq(S) /\ Distinct(pool) /\ pool # <<>>
        BY <2>1, <3>2
      <4> HIDE DEF S
      <4>2. /\ Head(pool) \in S /\ Occurs(pool, Head(pool))
            /\ Tail(pool) \in Seq(S) /\ Distinct(Tail(pool))
            /\ \A y : Occurs(Tail(pool), y) <=> Occurs(pool, y) /\ y # Head(pool)
        BY <4>1, PopFacts
      <4> QED
        BY <3>1, <4>2, Zenon DEF S
    <3>4. InPool(x)
      BY <3>3 DEF InPool, Occurs
    <3>5. ~InUse(x) /\ x \notin lost
      BY <3>3, <3>4 DEF IndInv, ListsExclusive, Holding, InUse, NoList
    <3>6. /\ created \in List /\ created \in Nat
          /\ mass \in [List -> [Element -> Tag]]
          /\ holds' = [holds EXCEPT ![t] = x]
      BY <2>1, <3>1, ListNumbers DEF Take, IndInv, TypeOK
    <3>7. created <= created'
      BY <3>1, <3>6
    <3> HIDE DEF x
    <3> QED
      BY <3>1, <3>3, <3>5, <3>6, <3>7
  <2>2. CASE pool = <<>>
    <3>1. /\ x = created + 1 /\ created' = created + 1 /\ pool' = pool
          /\ holds' = [holds EXCEPT ![t] = x]
      BY <2>2 DEF Take, IndInv, TypeOK
    <3>2. PICK garbage \in [Element -> Tag] :
            mass' = [mass EXCEPT ![created + 1] = garbage]
      BY <2>2 DEF Take
    <3>3. mass' \in [List -> [Element -> Tag]]
      BY <3>2 DEF IndInv, TypeOK
    <3>4. /\ created + 1 <= Cardinality(Thread) + Cardinality(lost)
          /\ Cardinality(lost) <= MaxLost /\ Cardinality(lost) \in Nat
      <4>1. lost \in SUBSET (1..created) /\ created \in Nat
        BY ListNumbers DEF IndInv, TypeOK
      <4>2. IsFiniteSet(1..created)
        BY <4>1, FS_Interval
      <4>3. IsFiniteSet(lost)
        BY <4>1, <4>2, FS_Subset, Zenon
      <4> QED
        BY <1>1, <2>2, <4>3, RoomForOne, FS_CardinalityType DEF IndInv, Holding
    <3>5. created' \in List /\ created \in Nat /\ created <= created'
      BY <3>1, <3>4, ListNumbers, ConstantsAssumption DEF IndInv, TypeOK, List
    <3>6. ~InUse(x) /\ x \notin lost
      BY <3>1, <3>5 DEF IndInv, TypeOK, InUse
    <3>7. /\ pool' \in Seq(1..created') /\ Distinct(pool')
          /\ \A y : ~Occurs(pool, y) /\ ~Occurs(pool', y)
      BY <2>2, <3>1 DEF Distinct, Occurs
    <3> QED
      BY <3>1, <3>3, <3>5, <3>6, <3>7
  <2> QED
    BY <2>1, <2>2
<1> HIDE DEF x
<1>3. TypeOK'
  BY <1>1, <1>2, ListNumbers DEF IndInv, TypeOK
<1>4. ListsExclusive'
  <2>1. \A u, w \in Thread : u # w /\ holds'[u] # NoList => holds'[u] # holds'[w]
    BY <1>2 DEF IndInv, TypeOK, ListsExclusive, InUse, NoList
  <2>2. \A u \in Thread : holds'[u] # NoList => ~Occurs(pool', holds'[u])
    BY <1>2 DEF IndInv, TypeOK, ListsExclusive, InPool, Occurs
  <2> QED
    BY <1>2, <2>1, <2>2 DEF ListsExclusive, InPool, Occurs, Distinct
<1>5. VisitedExact'
  <2> SUFFICES ASSUME NEW u \in Thread, pc'[u] = "searching"
               PROVE  visited'[u] = {e \in Element : mass'[holds'[u]][e] = curV'[holds'[u]]}
    BY DEF VisitedExact
  <2>1. u # t /\ pc[u] = "searching" /\ holds'[u] = holds[u] /\ holds[u] # NoList
    BY <1>1, <1>2 DEF IndInv, TypeOK, Holding
  <2>2. holds[u] \in List /\ holds[u] # x /\ holds[u] <= created
    <3>1. holds[u] \in 0..created /\ created \in List
      BY DEF IndInv, TypeOK
    <3>2. holds[u] \in 1..created
      BY <2>1, <3>1, ListNumbers DEF NoList
    <3>3. holds[u] \in List
      BY <3>1, <3>2, ListNumbers, ConstantsAssumption DEF List
    <3> QED
      BY <1>2, <3>2, <3>3 DEF InUse
  <2>3. mass'[holds[u]] = mass[holds[u]]
    BY <2>2, ListNumbers DEF Take, IndInv, TypeOK
  <2> QED
    BY <1>1, <2>1, <2>3 DEF IndInv, VisitedExact
<1>6. NoListLeaked'
  <2> SUFFICES ASSUME NEW y \in 1..created' PROVE Occurs(pool', y) \/ InUse(y)' \/ y \in lost'
    BY DEF NoListLeaked, InPool, Occurs
  <2>1. CASE y = x
    BY <1>2, <2>1 DEF InUse, IndInv, TypeOK
  <2>2. CASE y # x
    <3>1. y \in 1..created
      BY <1>2, <2>2
    <3>2. CASE Occurs(pool, y) \/ y \in lost
      BY <1>1, <1>2, <2>2, <3>2
    <3>3. CASE InUse(y)
      <4>1. PICK u \in Thread : holds[u] = y
        BY <3>3 DEF InUse
      <4>2. u # t
        BY <1>1, <3>1, <4>1 DEF NoList
      <4> QED
        BY <1>2, <4>1, <4>2 DEF InUse, IndInv, TypeOK
    <3> QED
      BY <3>1, <3>2, <3>3 DEF IndInv, NoListLeaked, InPool, Occurs
  <2> QED
    BY <2>1, <2>2
<1>7. FewLists'
  <2>1. CASE pool # <<>>
    BY <1>1, <2>1 DEF Take, IndInv, FewLists
  <2>2. CASE pool = <<>>
    BY <1>1, <2>2, RoomForOne DEF Take, FewLists
  <2> QED
    BY <2>1, <2>2
<1>8. MarksBelowTag'
  <2>1. CASE pool # <<>>
    BY <1>1, <2>1 DEF Take, IndInv, MarksBelowTag
  <2>2. CASE pool = <<>>
    <3>1. PICK garbage \in [Element -> Tag] :
            mass' = [mass EXCEPT ![created + 1] = garbage]
      BY <2>2 DEF Take
    <3>2. created' = created + 1 /\ created' \in List
      BY <1>2, <2>2 DEF Take
    <3>3. curV[created + 1] = MaxTag /\ created \in Nat
      BY <3>2, ListNumbers DEF IndInv, MarksBelowTag, TypeOK
    <3>4. \A e \in Element : garbage[e] <= MaxTag
      BY ConstantsAssumption DEF Tag
    <3>5. \A y \in List, e \in Element : mass'[y][e] <= curV'[y]
      BY <1>1, <3>1, <3>2, <3>3, <3>4 DEF IndInv, TypeOK, MarksBelowTag
    <3>6. \A y \in List : y > created' => curV'[y] = MaxTag
      BY <1>1, <3>2, <3>3, ListNumbers DEF IndInv, MarksBelowTag
    <3> QED
      BY <3>5, <3>6 DEF MarksBelowTag
  <2> QED
    BY <2>1, <2>2
<1>9. Holding'
  <2>1. \A u \in Thread : pc'[u] = "idle" <=> holds'[u] = NoList
    BY <1>1, <1>2 DEF IndInv, TypeOK, Holding, NoList
  <2>2. \A y \in lost : ~Occurs(pool', y) /\ ~InUse(y)'
    BY <1>2 DEF IndInv, TypeOK, Holding, InPool, Occurs, InUse
  <2> QED
    BY <1>1, <2>1, <2>2 DEF IndInv, Holding, InPool, Occurs
<1> QED
  BY <1>3, <1>4, <1>5, <1>6, <1>7, <1>8, <1>9 DEF IndInv

(* The list a thread holds is one of the lists. *)
LEMMA HeldList ==
  ASSUME IndInv, NEW t \in Thread, pc[t] # "idle"
  PROVE  /\ holds[t] \in List /\ holds[t] \in 1..created /\ holds[t] # NoList
         /\ created \in Nat
         /\ curV[holds[t]] \in Tag
<1>1. holds[t] \in 0..created /\ created \in List
  BY DEF IndInv, TypeOK
<1>2. holds[t] # NoList
  BY DEF IndInv, Holding
<1>3. created \in Nat /\ holds[t] \in 1..created
  BY <1>1, <1>2, ListNumbers DEF NoList
<1>4. holds[t] \in List
  BY <1>1, <1>3, ListNumbers, ConstantsAssumption DEF List
<1> QED
  BY <1>2, <1>3, <1>4 DEF IndInv, TypeOK

(* The marks left in the list are below its new tag, or were cleared.      *)
LEMMA ResetInd ==
  ASSUME IndInv, NEW t \in Thread, Reset(t)
  PROVE  IndInv'
<1> DEFINE x == holds[t]
<1>1. /\ pc[t] = "taken"
      /\ pc' = [pc EXCEPT ![t] = "searching"]
      /\ visited' = [visited EXCEPT ![t] = {}]
      /\ UNCHANGED <<created, pool, holds, lost>>
  BY DEF Reset
<1>2. x \in List /\ x \in 1..created /\ x # NoList /\ curV[x] \in Tag
  BY <1>1, HeldList
<1>3. /\ mass' \in [List -> [Element -> Tag]]
      /\ curV' \in [List -> Tag]
      /\ \A y \in List : y # x => mass'[y] = mass[y] /\ curV'[y] = curV[y]
      /\ \A e \in Element : mass'[x][e] < curV'[x]
  <2>1. CASE curV[x] = MaxTag
    <3>1. Cleared \in [Element -> Tag] /\ \A e \in Element : Cleared[e] = 0
      BY ConstantsAssumption DEF Cleared, Tag
    <3>2. /\ mass' = [mass EXCEPT ![x] = Cleared]
          /\ curV' = [curV EXCEPT ![x] = 1]
      BY <2>1 DEF Reset
    <3>3. 1 \in Tag
      BY ConstantsAssumption DEF Tag
    <3> HIDE DEF x
    <3> QED
      BY <1>2, <3>1, <3>2, <3>3 DEF IndInv, TypeOK
  <2>2. CASE curV[x] # MaxTag
    <3>1. mass' = mass /\ curV' = [curV EXCEPT ![x] = curV[x] + 1]
      BY <2>2 DEF Reset
    <3>2. curV[x] + 1 \in Tag
      BY <1>2, <2>2, ConstantsAssumption DEF Tag
    <3>3. \A e \in Element : mass[x][e] \in Nat /\ mass[x][e] <= curV[x]
      BY <1>2 DEF IndInv, TypeOK, MarksBelowTag, Tag
    <3>4. curV[x] \in Nat
      BY <1>2 DEF Tag
    <3> HIDE DEF x
    <3> QED
      BY <1>2, <3>1, <3>2, <3>3, <3>4 DEF IndInv, TypeOK
  <2> QED
    BY <2>1, <2>2
<1> HIDE DEF x
<1>4. TypeOK'
  BY <1>1, <1>3 DEF IndInv, TypeOK
<1>5. ListsExclusive' /\ NoListLeaked' /\ FewLists'
  BY <1>1 DEF IndInv, ListsExclusive, NoListLeaked, FewLists, InPool, InUse
<1>6. VisitedExact'
  <2> SUFFICES ASSUME NEW u \in Thread, pc'[u] = "searching"
               PROVE  visited'[u] = {e \in Element : mass'[holds[u]][e] = curV'[holds[u]]}
    BY <1>1 DEF VisitedExact
  <2>1. CASE u = t
    <3>1. \A e \in Element : mass'[x][e] # curV'[x]
      BY <1>2, <1>3 DEF Tag
    <3>2. visited'[u] = {}
      BY <1>1, <2>1 DEF IndInv, TypeOK
    <3> QED
      BY <2>1, <3>1, <3>2 DEF x
  <2>2. CASE u # t
    <3>1. pc[u] = "searching" /\ visited'[u] = visited[u]
      BY <1>1, <2>2 DEF IndInv, TypeOK
    <3>2. holds[u] \in List /\ holds[u] # NoList
      BY <3>1, HeldList
    <3>3. holds[u] # x
      BY <2>2, <3>2 DEF IndInv, ListsExclusive, x
    <3> QED
      BY <1>3, <3>1, <3>2, <3>3 DEF IndInv, VisitedExact
  <2> QED
    BY <2>1, <2>2
<1>7. MarksBelowTag'
  <2>1. \A y \in List, e \in Element : mass'[y][e] <= curV'[y]
    <3> SUFFICES ASSUME NEW y \in List, NEW e \in Element PROVE mass'[y][e] <= curV'[y]
      OBVIOUS
    <3>1. CASE y = x
      <4>1. mass'[x][e] \in Nat /\ curV'[x] \in Nat
        BY <1>2, <1>3 DEF Tag
      <4> QED
        BY <1>3, <3>1, <4>1
    <3>2. CASE y # x
      BY <1>3, <3>2 DEF IndInv, MarksBelowTag
    <3> QED
      BY <3>1, <3>2
  <2>2. \A y \in List : y > created => y # x
    BY <1>2, ListNumbers DEF IndInv, TypeOK
  <2> QED
    BY <1>1, <1>3, <2>1, <2>2 DEF IndInv, MarksBelowTag
<1>8. Holding'
  BY <1>1 DEF IndInv, TypeOK, Holding, InPool, InUse
<1> QED
  BY <1>4, <1>5, <1>6, <1>7, <1>8 DEF IndInv

LEMMA VisitInd ==
  ASSUME IndInv, NEW t \in Thread, NEW e \in Element, Visit(t, e)
  PROVE  IndInv'
<1> DEFINE x == holds[t]
<1>1. /\ pc[t] = "searching"
      /\ mass' = [mass EXCEPT ![x][e] = curV[x]]
      /\ visited' = [visited EXCEPT ![t] = visited[t] \union {e}]
      /\ UNCHANGED <<created, pool, curV, pc, holds, lost>>
  BY DEF Visit
<1>2. x \in List /\ curV[x] \in Tag
  BY <1>1, HeldList
<1> HIDE DEF x
<1>3. /\ mass' \in [List -> [Element -> Tag]]
      /\ \A y \in List, d \in Element :
           mass'[y][d] = IF y = x /\ d = e THEN curV[x] ELSE mass[y][d]
  BY <1>1, <1>2 DEF IndInv, TypeOK
<1>4. visited' \in [Thread -> SUBSET Element]
  BY <1>1 DEF IndInv, TypeOK
<1>5. TypeOK'
  BY <1>1, <1>3, <1>4 DEF IndInv, TypeOK
<1>6. ListsExclusive' /\ NoListLeaked' /\ FewLists'
  BY <1>1 DEF IndInv, ListsExclusive, NoListLeaked, FewLists, InPool, InUse
<1>7. VisitedExact'
  <2> SUFFICES ASSUME NEW u \in Thread, pc[u] = "searching"
               PROVE  visited'[u] = {d \in Element : mass'[holds[u]][d] = curV[holds[u]]}
    BY <1>1 DEF VisitedExact
  <2>1. holds[u] \in List /\ holds[u] # NoList
    BY HeldList
  <2>2. visited[u] = {d \in Element : mass[holds[u]][d] = curV[holds[u]]}
    BY DEF IndInv, VisitedExact
  <2>3. CASE u = t
    <3>1. visited'[u] = visited[u] \union {e} /\ holds[u] = x
      BY <1>1, <2>3 DEF IndInv, TypeOK, x
    <3> QED
      BY <1>2, <1>3, <2>2, <3>1
  <2>4. CASE u # t
    <3>1. visited'[u] = visited[u]
      BY <1>1, <2>4 DEF IndInv, TypeOK
    <3>2. holds[u] # x
      BY <2>1, <2>4 DEF IndInv, ListsExclusive, x
    <3> QED
      BY <1>3, <2>1, <2>2, <3>1, <3>2
  <2> QED
    BY <2>3, <2>4
<1>8. MarksBelowTag'
  <2>1. curV[x] <= curV[x]
    BY <1>2 DEF Tag
  <2> QED
    BY <1>1, <1>3, <2>1 DEF IndInv, MarksBelowTag
<1>9. Holding'
  BY <1>1 DEF IndInv, Holding, InPool, InUse
<1> QED
  BY <1>5, <1>6, <1>7, <1>8, <1>9 DEF IndInv

LEMMA ReleaseInd ==
  ASSUME IndInv, NEW t \in Thread, Release(t)
  PROVE  IndInv'
<1> DEFINE x == holds[t]
           S == 1..created
<1>1. /\ pc[t] = "searching"
      /\ pool' = <<x>> \o pool
      /\ holds' = [holds EXCEPT ![t] = NoList]
      /\ pc' = [pc EXCEPT ![t] = "idle"]
      /\ UNCHANGED <<created, curV, mass, visited, lost>>
  BY DEF Release
<1>2. x \in S /\ x # NoList
  BY <1>1, HeldList
<1>3. pool \in Seq(S) /\ Distinct(pool) /\ ~Occurs(pool, x)
  BY <1>2 DEF IndInv, TypeOK, ListsExclusive, InPool, Distinct, Occurs
<1>4. x \notin lost /\ \A u \in Thread : u # t => holds[u] # x
  BY <1>2 DEF IndInv, Holding, InUse, ListsExclusive
<1> HIDE DEF x, S
<1>5. /\ <<x>> \o pool \in Seq(S) /\ Distinct(<<x>> \o pool)
      /\ \A y : Occurs(<<x>> \o pool, y) <=> Occurs(pool, y) \/ y = x
  BY <1>2, <1>3, PushFacts
<1>6. /\ pool' \in Seq(S) /\ Distinct(pool')
      /\ \A y : Occurs(pool', y) <=> Occurs(pool, y) \/ y = x
  BY <1>1, <1>5, Zenon
<1>7. TypeOK'
  <2>1. pool' \in Seq(1..created')
    BY <1>1, <1>6 DEF S
  <2>2. holds' \in [Thread -> 0..created']
    BY <1>1, ListNumbers DEF IndInv, TypeOK, NoList
  <2>3. pc' \in [Thread -> {"idle", "taken", "searching"}]
    BY <1>1 DEF IndInv, TypeOK
  <2> QED
    BY <1>1, <2>1, <2>2, <2>3 DEF IndInv, TypeOK
<1>8. \A u \in Thread : holds'[u] = IF u = t THEN NoList ELSE holds[u]
  BY <1>1 DEF IndInv, TypeOK
<1>9. ListsExclusive'
  <2>1. \A u, w \in Thread : u # w /\ holds'[u] # NoList => holds'[u] # holds'[w]
    BY <1>8 DEF IndInv, ListsExclusive
  <2>2. ASSUME NEW u \in Thread, holds'[u] # NoList
        PROVE  ~Occurs(pool', holds'[u])
    <3>1. u # t /\ holds'[u] = holds[u]
      BY <1>8, <2>2
    <3>2. ~Occurs(pool, holds[u])
      BY <2>2, <3>1 DEF IndInv, ListsExclusive, InPool, Occurs
    <3>3. holds[u] # x
      BY <1>4, <3>1
    <3>4. Occurs(pool', holds[u]) <=> Occurs(pool, holds[u]) \/ holds[u] = x
      BY <1>6
    <3> QED
      BY <3>1, <3>2, <3>3, <3>4
  <2> QED
    BY <1>6, <2>1, <2>2 DEF ListsExclusive, InPool, Occurs, Distinct
<1>10. VisitedExact'
  BY <1>1, <1>8 DEF IndInv, TypeOK, VisitedExact
<1>11. NoListLeaked'
  <2> SUFFICES ASSUME NEW y \in 1..created
               PROVE  Occurs(pool', y) \/ InUse(y)' \/ y \in lost
    BY <1>1 DEF NoListLeaked, InPool, Occurs
  <2>1. CASE Occurs(pool, y) \/ y \in lost \/ y = x
    BY <1>6, <2>1
  <2>2. CASE InUse(y) /\ y # x
    BY <1>8, <2>2 DEF InUse, x
  <2> QED
    BY <2>1, <2>2 DEF IndInv, NoListLeaked, InPool, Occurs
<1>12. FewLists' /\ MarksBelowTag'
  BY <1>1 DEF IndInv, FewLists, MarksBelowTag
<1>13. Holding'
  <2>1. \A u \in Thread : pc'[u] = "idle" <=> holds'[u] = NoList
    BY <1>1, <1>8 DEF IndInv, TypeOK, Holding
  <2>2. \A y \in lost : ~Occurs(pool', y)
    BY <1>4, <1>6 DEF IndInv, Holding, InPool, Occurs
  <2>3. \A y \in lost : y # NoList
    BY ListNumbers DEF IndInv, TypeOK, NoList
  <2>4. \A y \in lost : ~InUse(y)'
    BY <1>8, <2>3 DEF IndInv, Holding, InUse
  <2> QED
    BY <1>1, <2>1, <2>2, <2>4 DEF IndInv, Holding, InPool, Occurs
<1> QED
  BY <1>7, <1>9, <1>10, <1>11, <1>12, <1>13 DEF IndInv

LEMMA AbandonInd ==
  ASSUME IndInv, NEW t \in Thread, Abandon(t)
  PROVE  IndInv'
<1> DEFINE x == holds[t]
<1>1. /\ pc[t] = "searching"
      /\ Cardinality(lost) < MaxLost
      /\ lost' = lost \union {x}
      /\ holds' = [holds EXCEPT ![t] = NoList]
      /\ pc' = [pc EXCEPT ![t] = "idle"]
      /\ UNCHANGED <<created, pool, curV, mass, visited>>
  BY DEF Abandon
<1>2. x \in 1..created /\ x # NoList /\ created \in Nat
  BY <1>1, HeldList
<1>3. /\ x \notin lost /\ ~InPool(x)
      /\ \A u \in Thread : u # t => holds[u] # x
  BY <1>2 DEF IndInv, Holding, InUse, ListsExclusive
<1>4. \A u \in Thread : holds'[u] = IF u = t THEN NoList ELSE holds[u]
  BY <1>1 DEF IndInv, TypeOK
<1>5. /\ Cardinality(lost') = Cardinality(lost) + 1
      /\ Cardinality(lost) \in Nat
  <2>1. lost \in SUBSET (1..created)
    BY DEF IndInv, TypeOK
  <2>2. IsFiniteSet(1..created)
    BY <1>2, FS_Interval
  <2>3. IsFiniteSet(lost)
    BY <2>1, <2>2, FS_Subset, Zenon
  <2> HIDE DEF x
  <2>4. Cardinality(lost \union {x}) = Cardinality(lost) + 1
    BY <1>3, <2>3, FS_AddElement
  <2>5. Cardinality(lost) \in Nat
    BY <2>3, FS_CardinalityType
  <2> QED
    BY <1>1, <2>4, <2>5
<1>6. TypeOK'
  <2>1. holds' \in [Thread -> 0..created']
    BY <1>1, <1>2 DEF IndInv, TypeOK, NoList
  <2>2. pc' \in [Thread -> {"idle", "taken", "searching"}]
    BY <1>1 DEF IndInv, TypeOK
  <2>3. lost' \subseteq 1..created'
    BY <1>1, <1>2 DEF IndInv, TypeOK
  <2> QED
    BY <1>1, <2>1, <2>2, <2>3 DEF IndInv, TypeOK
<1> HIDE DEF x
<1>7. ListsExclusive'
  BY <1>1, <1>4 DEF IndInv, ListsExclusive, InPool
<1>8. VisitedExact'
  BY <1>1, <1>4 DEF IndInv, TypeOK, VisitedExact
<1>9. NoListLeaked'
  <2> SUFFICES ASSUME NEW y \in 1..created, ~InPool(y), y \notin lost'
               PROVE  InUse(y)'
    BY <1>1 DEF NoListLeaked, InPool
  <2>1. InUse(y) /\ y # x
    BY <1>1 DEF IndInv, NoListLeaked
  <2> QED
    BY <1>4, <2>1 DEF InUse, x
<1>10. FewLists'
  <2>1. created <= Cardinality(Thread) + Cardinality(lost)
    BY DEF IndInv, FewLists
  <2> QED
    BY <1>1, <1>2, <1>5, <2>1, ListNumbers DEF FewLists
<1>11. MarksBelowTag'
  BY <1>1 DEF IndInv, MarksBelowTag
<1>12. Holding'
  <2>1. \A u \in Thread : pc'[u] = "idle" <=> holds'[u] = NoList
    BY <1>1, <1>4 DEF IndInv, TypeOK, Holding
  <2>2. \A y \in lost' : ~InPool(y)'
    BY <1>1, <1>3 DEF IndInv, Holding, InPool
  <2>3. \A y \in lost' : y # NoList
    BY <1>1, <1>2, ListNumbers DEF IndInv, TypeOK, NoList
  <2>4. \A y \in lost' : ~InUse(y)'
    BY <1>1, <1>3, <1>4, <2>3 DEF IndInv, Holding, InUse
  <2>5. Cardinality(lost') <= MaxLost
    BY <1>1, <1>5, ConstantsAssumption
  <2> QED
    BY <2>1, <2>2, <2>4, <2>5 DEF Holding
<1> QED
  BY <1>6, <1>7, <1>8, <1>9, <1>10, <1>11, <1>12 DEF IndInv

-----------------------------------------------------------------------------
LEMMA PoolInvariant == Spec => []IndInv
<1>1. Init => IndInv
  BY InitInd
<1>2. IndInv /\ [Next]_vars => IndInv'
  <2> SUFFICES ASSUME IndInv, [Next]_vars PROVE IndInv'
    OBVIOUS
  <2>1. CASE Next
    BY <2>1, TakeInd, ResetInd, VisitInd, ReleaseInd, AbandonInd DEF Next
  <2>2. CASE UNCHANGED vars
    BY <2>2 DEF vars, IndInv, TypeOK, ListsExclusive, VisitedExact, NoListLeaked,
                FewLists, MarksBelowTag, Holding, InPool, InUse
  <2> QED
    BY <2>1, <2>2
<1> QED
  BY <1>1, <1>2, PTL DEF Spec

(* For any number of threads and any tag width, lists, tags and marks stay *)
(* within their bounds (visited_list_pool.h).                              *)
THEOREM TypeCorrect == Spec => []TypeOK
<1>1. IndInv => TypeOK
  BY DEF IndInv
<1> QED
  BY <1>1, PoolInvariant, PTL

(* A search treats an element as visited exactly when it visited it, for   *)
(* every tag width: neither a wrapped tag nor uninitialised memory hides   *)
(* an element (VisitedList::reset).                                        *)
THEOREM VisitedExactHolds == Spec => []VisitedExact
<1>1. IndInv => VisitedExact
  BY DEF IndInv
<1> QED
  BY <1>1, PoolInvariant, PTL

(* No two searches share a list and no list is in the pool twice. *)
THEOREM ListsExclusiveHolds == Spec => []ListsExclusive
<1>1. IndInv => ListsExclusive
  BY DEF IndInv
<1> QED
  BY <1>1, PoolInvariant, PTL

(* The pool loses no list and creates at most one per thread, but for the  *)
(* searches left by an exception.                                          *)
THEOREM PoolBoundedHolds == Spec => []PoolBounded
<1>1. IndInv => PoolBounded
  BY DEF IndInv, NoListLeaked, FewLists, PoolBounded
<1> QED
  BY <1>1, PoolInvariant, PTL

-----------------------------------------------------------------------------
(* Recursion over a range of numbers.                                      *)

(* Of the numbers of a function one is the smallest.                       *)
LEMMA SmallestOf ==
  ASSUME NEW T, T # {}, NEW f \in [T -> Nat]
  PROVE  \E e \in T : \A x \in T : f[e] <= f[x]
<1> DEFINE L == {f[e] : e \in T}
           R == OpToRel(<, Nat)
<1>1. L \subseteq Nat /\ L # {}
  OBVIOUS
<1>2. \A x, y \in Nat : <<y, x>> \in R <=> y < x
  BY DEF OpToRel
<1>3. IsWellFoundedOn(R, Nat)
  BY NatLessThanWellFounded
<1> HIDE DEF R
<1>4. \E x \in L : \A y \in L : ~(<<y, x>> \in R)
  <2> HIDE DEF L
  <2> QED
    BY <1>1, <1>3, WFMin
<1>5. PICK e \in T : \A y \in L : ~(<<y, f[e]>> \in R)
  BY <1>4
<1>6. ASSUME NEW x \in T PROVE f[e] <= f[x]
  <2>1. ~(<<f[x], f[e]>> \in R) /\ f[x] \in Nat /\ f[e] \in Nat
    BY <1>5
  <2> QED
    BY <1>2, <2>1
<1> QED
  BY <1>6

(* What holds at a, and at n when it holds at n - 1, holds up to b.        *)
LEMMA UpTo ==
  ASSUME NEW a \in Nat, NEW b \in Nat, NEW S, a \in S, \A n \in a + 1 .. b : n - 1 \in S => n \in S
  PROVE  a .. b \subseteq S
<1> DEFINE bad == (a .. b) \ S
           f == [n \in bad |-> n]
<1> SUFFICES ASSUME bad # {} PROVE FALSE
  OBVIOUS
<1>1. f \in [bad -> Nat]
  OBVIOUS
<1>2. PICK x \in bad : \A y \in bad : f[x] <= f[y]
  <2> HIDE DEF bad, f
  <2> QED
    BY <1>1, SmallestOf
<1>3. x \in a + 1 .. b /\ x - 1 \in Nat /\ x \in Nat
  OBVIOUS
<1>4. x - 1 \in bad
  BY <1>3
<1>5. f[x] = x /\ f[x - 1] = x - 1
  BY <1>4
<1> QED
  BY <1>2, <1>3, <1>4, <1>5

Steps(step, a, b, V) == \A n \in a + 1 .. b, v \in V : step[n][v] \in V

(* There is a function that begins with a value and goes on by a step.     *)
LEMMA Recursion ==
  ASSUME NEW a \in Nat, NEW b \in Nat, a <= b, NEW V, NEW start \in V, NEW step, Steps(step, a, b, V)
  PROVE  \E f \in [a .. b -> V] :
           f[a] = start /\ \A n \in a + 1 .. b : f[n] = step[n][f[n - 1]]
<1> DEFINE Good(k, f) == /\ f[a] = start
                         /\ \A n \in a + 1 .. k : f[n] = step[n][f[n - 1]]
           S == {k \in a .. b : \E f \in [a .. k -> V] : Good(k, f)}
<1>1. a \in S
  <2>1. [n \in a .. a |-> start] \in [a .. a -> V] /\ Good(a, [n \in a .. a |-> start])
    OBVIOUS
  <2> HIDE DEF Good
  <2> QED
    BY <2>1
<1>2. ASSUME NEW k \in a + 1 .. b, k - 1 \in S PROVE k \in S
  <2>1. PICK f \in [a .. k - 1 -> V] : Good(k - 1, f)
    BY <1>2
  <2> DEFINE g == [n \in a .. k |-> IF n = k THEN step[k][f[k - 1]] ELSE f[n]]
  <2>2. f[k - 1] \in V /\ k \in a + 1 .. b
    OBVIOUS
  <2>3. step[k][f[k - 1]] \in V
    BY <2>2 DEF Steps
  <2>4. g \in [a .. k -> V]
    BY <2>3
  <2>5. g[a] = start
    BY <2>1
  <2>6. ASSUME NEW n \in a + 1 .. k PROVE g[n] = step[n][g[n - 1]]
    <3>1. n - 1 \in a .. k - 1 /\ g[n - 1] = f[n - 1]
      OBVIOUS
    <3>2. CASE n = k
      <4>1. g[k] = step[k][f[k - 1]] /\ g[k - 1] = f[k - 1]
        BY <3>1, <3>2
      <4> HIDE DEF g
      <4> QED
        BY <3>2, <4>1
    <3>3. CASE n # k
      BY <2>1, <3>1, <3>3
    <3> QED
      BY <3>2, <3>3
  <2>7. Good(k, g)
    BY <2>5, <2>6
  <2> HIDE DEF Good, g
  <2> QED
    BY <2>4, <2>7
<1>3. b \in S
  <2> HIDE DEF S
  <2>1. a .. b \subseteq S
    BY <1>1, <1>2, UpTo
  <2> QED
    BY <2>1
<1> QED
  BY <1>3

-----------------------------------------------------------------------------
(* Each part of Beside behaves as its own specification says.              *)

LEMMA PartsBehave == BesideSpec => Spec /\ Stop!Spec /\ Flat!Spec
<1>1. BesideInit => Init /\ Stop!Init /\ Flat!Init
  BY DEF BesideInit
<1>2. [BesideNext]_<<part, vars, stop_, flat_>> =>
        [Next]_vars /\ [Stop!Next]_Stop!vars /\ [Flat!Next]_Flat!vars
  BY DEF BesideNext, vars, stop_, flat_, Stop!vars, Stop!index, Stop!account, Flat!vars
<1> QED
  BY <1>1, <1>2, PTL DEF BesideSpec, Spec, Stop!Spec, Flat!Spec

-----------------------------------------------------------------------------
(* The account of a stop condition.                                        *)

Pair(e) == <<dist[e], doc[e]>>
Pairs(T) == {Pair(e) : e \in T}
PointsIn(T, d) == {e \in T : doc[e] = d}
DocsIn(T) == {doc[e] : e \in T}

(* n documents, c points of each and the entries b are those of T.         *)
Accounts(T, n, c, b) ==
  /\ c \in [Doc -> Nat] /\ \A d \in Doc : c[d] = Cardinality(PointsIn(T, d))
  /\ n = Cardinality(DocsIn(T))
  /\ b = Stop!SetToBag(Pairs(T))

(* The index does not change, and no two distances are equal.              *)
IndexKept ==
  /\ links \in [Node -> SUBSET Node] /\ dist \in [Node -> Dists] /\ doc \in [Node -> Doc]
  /\ \A e, f \in Node : e < f => dist[e] < dist[f]
  /\ refused \subseteq Node /\ ep \in Node /\ condition \in Conditions

LEMMA StopFacts ==
  /\ Node \subseteq Nat /\ IsFiniteSet(Node) /\ Doc \subseteq Nat /\ Dists \subseteq Nat
  /\ IsFiniteSet(Doc) /\ Stop!Far = 1000 /\ \A d \in Dists : d < 1000
  /\ \A c \in Conditions : c.most \in Nat /\ c.least \in Nat /\ c.least <= c.most
<1>1. IsFiniteSet(Node) /\ IsFiniteSet(Doc)
  BY PartsAssumption, Zenon DEF Stop!StopAssumption, Stop!IsFiniteSet, IsFiniteSet
<1>2. ASSUME NEW c \in Conditions PROVE c.most \in Nat /\ c.least \in Nat
  <2>1. \/ c \in [kind : {"docs"}, least : Nat, most : Nat]
        \/ c \in [kind : {"epsilon"}, epsilon : Nat, least : Nat, most : Nat]
    BY PartsAssumption, Zenon DEF Stop!StopAssumption
  <2> QED
    BY <2>1
<1> QED
  BY <1>1, <1>2, PartsAssumption DEF Stop!StopAssumption, Stop!Far

LEMMA SameCardinality == \A S : Stop!Cardinality(S) = Cardinality(S)
BY Zenon DEF Stop!Cardinality, Cardinality, Stop!IsFiniteSet, IsFiniteSet

LEMMA DistsDiffer ==
  ASSUME IndexKept, NEW e \in Node, NEW f \in Node, dist[e] = dist[f]
  PROVE  e = f
<1>1. e \in Nat /\ f \in Nat /\ dist[e] \in Nat /\ dist[f] \in Nat
  BY StopFacts DEF IndexKept
<1>2. ~(e < f) /\ ~(f < e)
  BY <1>1 DEF IndexKept
<1> QED
  BY <1>1, <1>2

LEMMA PairsDiffer ==
  ASSUME IndexKept, NEW e \in Node, NEW f \in Node, Pair(e) = Pair(f)
  PROVE  e = f
BY DistsDiffer DEF Pair

LEMMA BagGrows ==
  ASSUME NEW S, NEW x, x \notin S
  PROVE  Stop!BagAdd(Stop!SetToBag(S), x) = Stop!SetToBag(S \union {x})
BY DEF Stop!BagAdd, Stop!SetToBag

LEMMA BagShrinks ==
  ASSUME NEW S, NEW x \in S
  PROVE  Stop!BagRemove(Stop!SetToBag(S), x) = Stop!SetToBag(S \ {x})
BY DEF Stop!BagRemove, Stop!SetToBag

LEMMA SetsFinite ==
  ASSUME NEW T \in SUBSET Node
  PROVE  /\ IsFiniteSet(T) /\ IsFiniteSet(DocsIn(T))
         /\ \A d : IsFiniteSet(PointsIn(T, d))
<1>1. IsFiniteSet(T)
  BY StopFacts, FS_Subset
<1>2. IsFiniteSet(DocsIn(T))
  <2>1. [e \in T |-> doc[e]] \in Surjection(T, DocsIn(T))
    BY DEF Surjection, DocsIn
  <2> QED
    BY <1>1, <2>1, FS_Surjection
<1>3. \A d : PointsIn(T, d) \subseteq T
  BY DEF PointsIn
<1> QED
  BY <1>1, <1>2, <1>3, FS_Subset

LEMMA AccountAdds ==
  ASSUME IndexKept, NEW T \in SUBSET Node, NEW e \in Node \ T, NEW n, NEW c, NEW b, Accounts(T, n, c, b)
  PROVE  Accounts(T \union {e}, IF c[doc[e]] = 0 THEN n + 1 ELSE n,
                  [c EXCEPT ![doc[e]] = @ + 1], Stop!BagAdd(b, Pair(e)))
<1> DEFINE U == T \union {e}
           d0 == doc[e]
           m == IF c[d0] = 0 THEN n + 1 ELSE n
           k == [c EXCEPT ![d0] = @ + 1]
<1>1. d0 \in Doc /\ c \in [Doc -> Nat] /\ IsFiniteSet(T)
  BY SetsFinite DEF IndexKept, Accounts
<1>2. k \in [Doc -> Nat]
  BY <1>1
<1>3. ASSUME NEW d \in Doc PROVE k[d] = Cardinality(PointsIn(U, d))
  <2>1. IsFiniteSet(PointsIn(T, d)) /\ c[d] = Cardinality(PointsIn(T, d))
    BY SetsFinite DEF Accounts
  <2>2. CASE d = d0
    <3>1. PointsIn(U, d) = PointsIn(T, d) \union {e} /\ e \notin PointsIn(T, d)
      BY <2>2 DEF PointsIn
    <3>2. Cardinality(PointsIn(U, d)) = Cardinality(PointsIn(T, d)) + 1
      BY <2>1, <3>1, FS_AddElement
    <3> QED
      BY <1>1, <2>1, <2>2, <3>2
  <2>3. CASE d # d0
    <3>1. PointsIn(U, d) = PointsIn(T, d)
      BY <2>3 DEF PointsIn
    <3> QED
      BY <1>1, <2>1, <2>3, <3>1
  <2> QED
    BY <2>2, <2>3
<1>4. m = Cardinality(DocsIn(U))
  <2>1. DocsIn(U) = DocsIn(T) \union {d0} /\ IsFiniteSet(DocsIn(T)) /\ n = Cardinality(DocsIn(T))
    BY SetsFinite DEF DocsIn, Accounts
  <2>2. c[d0] = Cardinality(PointsIn(T, d0)) /\ IsFiniteSet(PointsIn(T, d0))
    BY <1>1, SetsFinite DEF Accounts
  <2>3. c[d0] = 0 <=> d0 \notin DocsIn(T)
    <3>1. PointsIn(T, d0) = {} <=> d0 \notin DocsIn(T)
      BY DEF PointsIn, DocsIn
    <3> QED
      BY <2>2, <3>1, FS_EmptySet
  <2>4. CASE c[d0] = 0
    BY <2>1, <2>3, <2>4, FS_AddElement
  <2>5. CASE c[d0] # 0
    <3>1. DocsIn(U) = DocsIn(T)
      BY <2>1, <2>3, <2>5
    <3> QED
      BY <2>1, <2>5, <3>1
  <2> QED
    BY <2>4, <2>5
<1>5. Stop!BagAdd(b, Pair(e)) = Stop!SetToBag(Pairs(U))
  <2>1. Pairs(U) = Pairs(T) \union {Pair(e)}
    BY DEF Pairs
  <2>2. Pair(e) \notin Pairs(T)
    BY PairsDiffer DEF Pairs
  <2> QED
    BY <2>1, <2>2, BagGrows DEF Accounts
<1> HIDE DEF m, k, U
<1>6. Accounts(U, m, k, Stop!BagAdd(b, Pair(e)))
  BY <1>2, <1>3, <1>4, <1>5 DEF Accounts
<1> QED
  BY <1>6 DEF m, k, U

LEMMA AccountForgets ==
  ASSUME IndexKept, NEW T \in SUBSET Node, NEW e \in T, NEW n, NEW c, NEW b, Accounts(T, n, c, b)
  PROVE  Accounts(T \ {e}, IF c[doc[e]] = 1 THEN n - 1 ELSE n,
                  [c EXCEPT ![doc[e]] = @ - 1], Stop!BagRemove(b, Pair(e)))
<1> DEFINE U == T \ {e}
           d0 == doc[e]
           m == IF c[d0] = 1 THEN n - 1 ELSE n
           k == [c EXCEPT ![d0] = @ - 1]
<1>1. d0 \in Doc /\ c \in [Doc -> Nat] /\ IsFiniteSet(T)
  BY SetsFinite DEF IndexKept, Accounts
<1>2. ASSUME NEW d \in Doc PROVE k[d] = Cardinality(PointsIn(U, d)) /\ k[d] \in Nat
  <2>1. /\ IsFiniteSet(PointsIn(T, d)) /\ c[d] = Cardinality(PointsIn(T, d))
        /\ IsFiniteSet(PointsIn(U, d))
    BY SetsFinite DEF Accounts
  <2>2. Cardinality(PointsIn(U, d)) \in Nat
    BY <2>1, FS_CardinalityType
  <2>3. CASE d = d0
    <3>1. PointsIn(U, d) = PointsIn(T, d) \ {e} /\ e \in PointsIn(T, d)
      BY <2>3 DEF PointsIn
    <3>2. Cardinality(PointsIn(U, d)) = Cardinality(PointsIn(T, d)) - 1
      BY <2>1, <3>1, FS_RemoveElement
    <3> QED
      BY <1>1, <2>1, <2>2, <2>3, <3>2
  <2>4. CASE d # d0
    <3>1. PointsIn(U, d) = PointsIn(T, d)
      BY <2>4 DEF PointsIn
    <3> QED
      BY <1>1, <2>1, <2>2, <2>4, <3>1
  <2> QED
    BY <2>3, <2>4
<1>3. k \in [Doc -> Nat]
  <2>1. k = [d \in Doc |-> k[d]]
    BY <1>1
  <2> HIDE DEF k
  <2>2. \A d \in Doc : k[d] \in Nat
    BY <1>2
  <2> QED
    BY <2>1, <2>2
<1>4. m = Cardinality(DocsIn(U))
  <2>1. /\ d0 \in DocsIn(T) /\ IsFiniteSet(DocsIn(T)) /\ n = Cardinality(DocsIn(T))
        /\ DocsIn(T) = DocsIn(U) \union {d0}
    BY SetsFinite DEF DocsIn, Accounts
  <2>2. c[d0] = Cardinality(PointsIn(T, d0)) /\ IsFiniteSet(PointsIn(T, d0)) /\ IsFiniteSet(PointsIn(U, d0))
    BY <1>1, SetsFinite DEF Accounts
  <2>3. PointsIn(U, d0) = PointsIn(T, d0) \ {e} /\ e \in PointsIn(T, d0)
    BY DEF PointsIn
  <2>4. Cardinality(PointsIn(U, d0)) = c[d0] - 1 /\ c[d0] \in Nat
    <3>1. c[d0] \in Nat
      BY <1>1
    <3>2. Cardinality(PointsIn(T, d0) \ {e}) = Cardinality(PointsIn(T, d0)) - 1
      BY <2>2, <2>3, FS_RemoveElement
    <3> QED
      BY <2>2, <2>3, <3>1, <3>2
  <2>5. c[d0] = 1 <=> d0 \notin DocsIn(U)
    <3>1. PointsIn(U, d0) = {} <=> d0 \notin DocsIn(U)
      BY DEF PointsIn, DocsIn
    <3>2. PointsIn(U, d0) = {} <=> Cardinality(PointsIn(U, d0)) = 0
      BY <2>2, FS_EmptySet
    <3> QED
      BY <2>4, <3>1, <3>2
  <2>6. CASE c[d0] = 1
    <3>1. DocsIn(U) = DocsIn(T) \ {d0}
      BY <2>1, <2>5, <2>6
    <3> QED
      BY <2>1, <2>6, <3>1, FS_RemoveElement
  <2>7. CASE c[d0] # 1
    <3>1. DocsIn(U) = DocsIn(T)
      BY <2>1, <2>5, <2>7
    <3> QED
      BY <2>1, <2>7, <3>1
  <2> QED
    BY <2>6, <2>7
<1>5. Stop!BagRemove(b, Pair(e)) = Stop!SetToBag(Pairs(U))
  <2>1. Pairs(U) = Pairs(T) \ {Pair(e)}
    BY PairsDiffer DEF Pairs
  <2>2. Pair(e) \in Pairs(T)
    BY DEF Pairs
  <2> QED
    BY <2>1, <2>2, BagShrinks DEF Accounts
<1> HIDE DEF m, k, U
<1>6. Accounts(U, m, k, Stop!BagRemove(b, Pair(e)))
  BY <1>2, <1>3, <1>4, <1>5 DEF Accounts
<1> QED
  BY <1>6 DEF m, k, U

(* The entry the account drops is that of the farthest point.              *)
LEMMA TopIs ==
  ASSUME IndexKept, NEW T \in SUBSET Node, NEW e \in Stop!Farthest(T),
         results = Stop!SetToBag(Pairs(T))
  PROVE  Stop!TopResult = Pair(e)
<1> DEFINE Last(p) == \A q \in Pairs(T) : Stop!Before(q, p)
<1>1. Stop!BagToSet(results) = Pairs(T)
  BY DEF Stop!BagToSet, Stop!SetToBag
<1>2. e \in T /\ \A f \in T : dist[f] <= dist[e]
  BY DEF Stop!Farthest
<1>3. \A f \in T : f \in Node /\ dist[f] \in Nat /\ doc[f] \in Nat
  BY StopFacts DEF IndexKept
<1>4. Last(Pair(e)) /\ Pair(e) \in Pairs(T)
  <2>1. ASSUME NEW f \in T PROVE Stop!Before(Pair(f), Pair(e))
    <3>1. CASE f = e
      BY <1>3, <3>1 DEF Stop!Before, Pair
    <3>2. CASE f # e
      <4>1. dist[f] # dist[e]
        BY <1>2, <1>3, <3>2, DistsDiffer
      <4> QED
        BY <1>2, <1>3, <4>1 DEF Stop!Before, Pair
    <3> QED
      BY <3>1, <3>2
  <2> QED
    BY <1>2, <2>1 DEF Pairs
<1>5. ASSUME NEW p \in Pairs(T), Last(p) PROVE p = Pair(e)
  <2>1. PICK f \in T : p = Pair(f)
    BY DEF Pairs
  <2>2. Stop!Before(Pair(e), Pair(f))
    BY <1>4, <1>5, <2>1
  <2>3. dist[e] <= dist[f]
    BY <1>2, <1>3, <2>2 DEF Stop!Before, Pair
  <2>4. dist[e] = dist[f]
    BY <1>2, <1>3, <2>3
  <2>5. e = f
    BY <1>2, <1>3, <2>4, DistsDiffer
  <2> QED
    BY <2>1, <2>5
<1>6. Stop!TopResult = CHOOSE p \in Pairs(T) : Last(p)
  BY <1>1 DEF Stop!TopResult
<1> HIDE DEF Last
<1> QED
  BY <1>4, <1>5, <1>6

-----------------------------------------------------------------------------
(* The search and the account along its steps.                             *)

LEMMA FarthestExists ==
  ASSUME IndexKept, NEW T \in SUBSET Node, T # {}
  PROVE  Stop!Farthest(T) # {}
<1> DEFINE f == [e \in T |-> 1000 - dist[e]]
<1>1. ASSUME NEW e \in T PROVE dist[e] \in Nat /\ f[e] = 1000 - dist[e] /\ f[e] \in Nat
  <2>1. dist[e] \in Dists
    BY DEF IndexKept
  <2>2. dist[e] \in Nat /\ dist[e] < 1000
    BY <2>1, StopFacts
  <2> QED
    BY <2>2
<1>2. f \in [T -> Nat]
  BY <1>1
<1>3. PICK e \in T : \A x \in T : f[e] <= f[x]
  <2> HIDE DEF f
  <2> QED
    BY <1>2, SmallestOf
<1> HIDE DEF f
<1>4. \A x \in T : dist[x] <= dist[e]
  BY <1>1, <1>3
<1> QED
  BY <1>4 DEF Stop!Farthest

(* The most documents or points that count outside of a trim: the entry    *)
(* point counts even if none were asked for.                               *)
Most == IF condition.most = 0 THEN 1 ELSE condition.most

SearchKept ==
  /\ at \in {"begin", "pop", "look", "trim", "filter", "done"}
  /\ top \subseteq met \ refused /\ cand \subseteq met /\ met \subseteq Node /\ row \subseteq Node
  /\ lower \in Dists \union {Stop!Far}
  /\ at = "begin" => top = {} /\ curr = 0
  /\ curr \in Nat /\ curr <= Most + (IF at = "trim" THEN 1 ELSE 0)

(* The account of the documents is exact.  The epsilon region counts the   *)
(* points, but not those its filter takes away.                            *)
AccountKept ==
  IF Stop!Docs THEN Accounts(top, curr, counter, results)
  ELSE at \notin {"filter", "done"} => curr = Cardinality(top)

StopInv == IndexKept /\ SearchKept /\ AccountKept

LEMMA MostFacts ==
  ASSUME IndexKept
  PROVE  condition.most \in Nat /\ condition.least \in Nat /\ Most \in Nat /\ Most # 0
         /\ condition.most <= Most
BY StopFacts DEF IndexKept, Most

(* A point added to the result, and one removed from it.                   *)
LEMMA PointAdded ==
  ASSUME StopInv, at \notin {"filter", "done"}, NEW e \in Node \ top,
         Stop!add_point_to_result(e), top' = top \union {e}, at' \notin {"filter", "done"},
         UNCHANGED Stop!index
  PROVE  AccountKept' /\ curr' \in Nat /\ curr' <= curr + 1
<1>1. /\ IndexKept /\ curr \in Nat /\ top \subseteq Node
      /\ UNCHANGED <<dist, doc, condition>>
  BY DEF StopInv, SearchKept, Stop!index
<1>2. CASE Stop!Docs
  <2>1. Accounts(top, curr, counter, results) /\ Stop!Docs'
    BY <1>1, <1>2 DEF StopInv, AccountKept, Stop!Docs
  <2>2. /\ curr' = IF counter[doc[e]] = 0 THEN curr + 1 ELSE curr
        /\ counter' = [counter EXCEPT ![doc[e]] = @ + 1]
        /\ results' = Stop!BagAdd(results, Pair(e))
    BY <1>2 DEF Stop!add_point_to_result, Pair
  <2>3. Accounts(top', curr', counter', results')
    BY <1>1, <2>1, <2>2, AccountAdds
  <2>4. Accounts(top, curr, counter, results)'
    BY <1>1, <2>3 DEF Accounts, PointsIn, DocsIn, Pairs, Pair
  <2> QED
    BY <1>1, <2>1, <2>2, <2>4 DEF AccountKept
<1>3. CASE ~Stop!Docs
  <2>1. curr = Cardinality(top) /\ curr' = curr + 1 /\ ~Stop!Docs'
    BY <1>1, <1>3 DEF StopInv, AccountKept, Stop!Docs, Stop!add_point_to_result
  <2>2. IsFiniteSet(top)
    BY <1>1, SetsFinite
  <2>3. Cardinality(top') = Cardinality(top) + 1
    BY <2>2, FS_AddElement
  <2> QED
    BY <1>1, <2>1, <2>3 DEF AccountKept
<1> QED
  BY <1>2, <1>3

LEMMA PointForgotten ==
  ASSUME StopInv, Stop!Docs, NEW e \in Stop!Farthest(top), curr # 0,
         Stop!Forget(doc[e]), top' = top \ {e}, UNCHANGED Stop!index
  PROVE  AccountKept' /\ curr' \in Nat /\ curr' <= curr
<1>1. /\ IndexKept /\ curr \in Nat /\ top \in SUBSET Node /\ e \in top
      /\ UNCHANGED <<dist, doc, condition>>
  BY DEF StopInv, SearchKept, Stop!index, Stop!Farthest
<1>2. Accounts(top, curr, counter, results) /\ Stop!Docs'
  BY <1>1 DEF StopInv, AccountKept, Stop!Docs
<1>3. Stop!TopResult = Pair(e)
  BY <1>1, <1>2, TopIs DEF Accounts
<1>4. /\ curr' = IF counter[doc[e]] = 1 THEN curr - 1 ELSE curr
      /\ counter' = [counter EXCEPT ![doc[e]] = @ - 1]
      /\ results' = Stop!BagRemove(results, Pair(e))
  BY <1>3 DEF Stop!Forget
<1>5. Accounts(top', curr', counter', results')
  BY <1>1, <1>2, <1>4, AccountForgets
<1>6. Accounts(top, curr, counter, results)'
  BY <1>1, <1>5 DEF Accounts, PointsIn, DocsIn, Pairs, Pair
<1> QED
  BY <1>1, <1>2, <1>4, <1>6 DEF AccountKept

LEMMA PointRemoved ==
  ASSUME StopInv, at = "trim", NEW e \in Stop!Farthest(top), curr # 0,
         Stop!remove_point_from_result(e), top' = top \ {e}, UNCHANGED Stop!index
  PROVE  AccountKept' /\ curr' \in Nat /\ curr' <= curr
<1>1. CASE Stop!Docs
  BY <1>1, PointForgotten DEF Stop!remove_point_from_result
<1>2. CASE ~Stop!Docs
  <2>1. /\ curr \in Nat /\ top \in SUBSET Node /\ e \in top /\ UNCHANGED condition
        /\ curr = Cardinality(top) /\ curr' = curr - 1
    BY <1>2 DEF StopInv, SearchKept, AccountKept, Stop!index, Stop!Farthest, Stop!remove_point_from_result
  <2>2. IsFiniteSet(top)
    BY <2>1, SetsFinite
  <2>3. Cardinality(top') = Cardinality(top) - 1
    BY <2>1, <2>2, FS_RemoveElement
  <2> QED
    BY <1>2, <2>1, <2>3 DEF AccountKept, Stop!Docs
<1> QED
  BY <1>1, <1>2

LEMMA StopInit == Stop!Init => StopInv
<1> SUFFICES ASSUME Stop!Init PROVE StopInv
  OBVIOUS
<1>1. IndexKept
  <2>1. links \in [Node -> SUBSET Node] /\ dist \in [Node -> Dists] /\ doc \in [Node -> Doc]
    BY PartsAssumption DEF Stop!Init, Stop!StopAssumption
  <2> QED
    BY <2>1 DEF Stop!Init, IndexKept
<1>2. SearchKept
  BY <1>1, MostFacts DEF Stop!Init, SearchKept
<1>3. IsFiniteSet({}) /\ Cardinality({}) = 0
  BY FS_EmptySet
<1>4. Stop!Docs => AccountKept
  <2>1. \A d \in Doc : counter[d] = 0 /\ PointsIn(top, d) = {}
    BY DEF Stop!Init, PointsIn
  <2>2. DocsIn(top) = {} /\ Pairs(top) = {}
    BY DEF Stop!Init, DocsIn, Pairs
  <2>3. results = Stop!SetToBag({})
    BY DEF Stop!Init, Stop!EmptyBag
  <2>4. counter \in [Doc -> Nat] /\ curr = 0
    BY DEF Stop!Init
  <2>5. Accounts(top, curr, counter, results)
    BY <1>3, <2>1, <2>2, <2>3, <2>4 DEF Accounts
  <2> QED
    BY <2>5 DEF AccountKept
<1>5. ~Stop!Docs => AccountKept
  <2>1. curr = 0 /\ top = {}
    BY DEF Stop!Init
  <2> QED
    BY <1>3, <2>1 DEF AccountKept
<1> QED
  BY <1>1, <1>2, <1>4, <1>5 DEF StopInv

LEMMA IndexStays ==
  ASSUME IndexKept, UNCHANGED Stop!index PROVE IndexKept' /\ Most' = Most
BY DEF Stop!index, IndexKept, Most

(* The steps that leave the result and its account alone.                  *)
LEMMA AccountStays ==
  ASSUME StopInv, UNCHANGED <<Stop!index, top, Stop!account>>,
         at' \notin {"filter", "done"} => at \notin {"filter", "done"}
  PROVE  AccountKept'
<1>1. UNCHANGED <<dist, doc, condition, top, curr, counter, results>>
  BY DEF Stop!index, Stop!account
<1> QED
  BY <1>1 DEF StopInv, AccountKept, Stop!Docs, Accounts, PointsIn, DocsIn, Pairs, Pair

LEMMA BeginKeeps == ASSUME StopInv, Stop!Begin PROVE StopInv'
<1>1. /\ IndexKept /\ top = {} /\ curr = 0 /\ at = "begin" /\ at' = "pop" /\ ep \in Node
      /\ dist[ep] \in Dists /\ UNCHANGED <<Stop!index, row>>
  BY DEF StopInv, SearchKept, IndexKept, Stop!Begin
<1>2. IndexKept' /\ Most' = Most /\ Most \in Nat /\ Most # 0
  BY <1>1, IndexStays, MostFacts
<1>3. refused' = refused
  BY <1>1 DEF Stop!index
<1>4. CASE ep \in refused
  <2>1. AccountKept'
    BY <1>1, <1>4, AccountStays DEF Stop!Begin
  <2>2. SearchKept'
    BY <1>1, <1>2, <1>4 DEF StopInv, SearchKept, Stop!Begin, Stop!account
  <2> QED
    BY <1>2, <2>1, <2>2 DEF StopInv
<1>5. CASE ep \notin refused
  <2>1. top' = top \union {ep} /\ Stop!add_point_to_result(ep)
    BY <1>1, <1>5 DEF Stop!Begin
  <2>2. AccountKept' /\ curr' \in Nat /\ curr' <= curr + 1
    BY <1>1, <2>1, PointAdded
  <2>3. SearchKept'
    BY <1>1, <1>2, <1>3, <1>5, <2>1, <2>2 DEF StopInv, SearchKept, Stop!Begin
  <2> QED
    BY <1>2, <2>2, <2>3 DEF StopInv
<1> QED
  BY <1>4, <1>5

LEMMA PopKeeps == ASSUME StopInv, Stop!Pop PROVE StopInv'
<1>1. IndexKept /\ UNCHANGED <<Stop!index, top, lower, met, Stop!account>> /\ at = "pop"
  BY DEF StopInv, Stop!Pop
<1>2. IndexKept' /\ Most' = Most /\ Most \in Nat
  BY <1>1, IndexStays, MostFacts
<1>3. AccountKept'
  BY <1>1, AccountStays
<1>4. PICK e \in cand : \/ at' = "filter" /\ UNCHANGED <<cand, row>>
                        \/ at' = "look" /\ cand' = cand \ {e} /\ row' = links[e]
  BY DEF Stop!Pop, Stop!Nearest
<1>5. links[e] \subseteq Node
  BY DEF StopInv, SearchKept, IndexKept
<1>6. SearchKept'
  BY <1>1, <1>2, <1>4, <1>5 DEF StopInv, SearchKept, Stop!index, Stop!account
<1> QED
  BY <1>2, <1>3, <1>6 DEF StopInv

LEMMA LookKeeps == ASSUME StopInv, Stop!Look PROVE StopInv'
<1>1. IndexKept /\ UNCHANGED <<Stop!index, lower>> /\ at = "look"
  BY DEF StopInv, Stop!Look
<1>2. IndexKept' /\ Most' = Most /\ Most \in Nat /\ refused' = refused
  BY <1>1, IndexStays, MostFacts DEF Stop!index
<1>3. PICK e \in row :
        /\ row' = row \ {e} /\ met' = met \union {e}
        /\ \/ UNCHANGED <<cand, top, Stop!account, at>>
           \/ /\ e \notin met /\ cand' = cand \union {e} /\ at' = "trim"
              /\ \/ UNCHANGED <<top, Stop!account>>
                 \/ e \notin refused /\ top' = top \union {e} /\ Stop!add_point_to_result(e)
  BY DEF Stop!Look
<1>4. e \in Node
  BY DEF StopInv, SearchKept
<1>5. CASE UNCHANGED <<top, Stop!account>>
  <2>1. at' \in {"look", "trim"} /\ cand' \subseteq cand \union {e}
    BY <1>1, <1>3
  <2>2. AccountKept'
    BY <1>1, <1>5, AccountStays
  <2>3. SearchKept'
    BY <1>1, <1>2, <1>3, <1>4, <1>5, <2>1 DEF StopInv, SearchKept, Stop!account
  <2> QED
    BY <1>2, <2>2, <2>3 DEF StopInv
<1>6. CASE /\ e \notin met /\ cand' = cand \union {e} /\ at' = "trim"
           /\ e \notin refused /\ top' = top \union {e} /\ Stop!add_point_to_result(e)
  <2>1. e \in Node \ top
    BY <1>4, <1>6 DEF StopInv, SearchKept
  <2>2. AccountKept' /\ curr' \in Nat /\ curr' <= curr + 1
    BY <1>1, <1>6, <2>1, PointAdded
  <2>3. curr' <= Most' + 1
    BY <1>1, <1>2, <2>2 DEF StopInv, SearchKept
  <2>4. SearchKept'
    BY <1>1, <1>2, <1>3, <1>4, <1>6, <2>2, <2>3 DEF StopInv, SearchKept
  <2> QED
    BY <1>2, <2>2, <2>4 DEF StopInv
<1> QED
  BY <1>3, <1>5, <1>6

LEMMA TrimKeeps == ASSUME StopInv, Stop!Trim PROVE StopInv'
<1>1. IndexKept /\ UNCHANGED <<Stop!index, cand, met, row>> /\ at = "trim"
  BY DEF StopInv, Stop!Trim
<1>2. IndexKept' /\ Most' = Most /\ Most \in Nat /\ refused' = refused
  BY <1>1, IndexStays, MostFacts DEF Stop!index
<1>3. condition.most \in Nat /\ condition.most <= Most
  BY <1>1, MostFacts
<1>4. curr \in Nat
  BY DEF StopInv, SearchKept
<1>5. CASE curr > condition.most
  <2>1. PICK e \in Stop!Farthest(top) : top' = top \ {e} /\ Stop!remove_point_from_result(e)
    BY <1>5 DEF Stop!Trim, Stop!should_remove_extra
  <2>2. curr # 0 /\ UNCHANGED <<at, lower>>
    BY <1>3, <1>4, <1>5 DEF Stop!Trim, Stop!should_remove_extra
  <2>3. AccountKept' /\ curr' \in Nat /\ curr' <= curr
    BY <1>1, <2>1, <2>2, PointRemoved
  <2>4. SearchKept'
    BY <1>1, <1>2, <2>1, <2>2, <2>3 DEF StopInv, SearchKept
  <2> QED
    BY <1>2, <2>3, <2>4 DEF StopInv
<1>6. CASE ~(curr > condition.most)
  <2>1. /\ lower' = IF top = {} THEN lower ELSE dist[CHOOSE e \in Stop!Farthest(top) : TRUE]
        /\ at' = "look" /\ UNCHANGED <<top, Stop!account>>
    BY <1>6 DEF Stop!Trim, Stop!should_remove_extra
  <2>2. lower' \in Dists \union {Stop!Far}
    <3>1. CASE top = {}
      BY <2>1, <3>1 DEF StopInv, SearchKept
    <3>2. CASE top # {}
      <4>1. top \in SUBSET Node
        BY DEF StopInv, SearchKept
      <4>2. Stop!Farthest(top) # {}
        BY <1>1, <3>2, <4>1, FarthestExists
      <4>3. (CHOOSE e \in Stop!Farthest(top) : TRUE) \in Stop!Farthest(top)
        <5> DEFINE F == Stop!Farthest(top)
        <5> HIDE DEF F
        <5>1. F # {} => (CHOOSE e \in F : TRUE) \in F
          OBVIOUS
        <5> QED
          BY <4>2, <5>1 DEF F
      <4>4. (CHOOSE e \in Stop!Farthest(top) : TRUE) \in Node
        BY <4>1, <4>3 DEF Stop!Farthest
      <4> QED
        BY <1>1, <2>1, <3>2, <4>4 DEF IndexKept
    <3> QED
      BY <3>1, <3>2
  <2>3. AccountKept'
    BY <1>1, <2>1, AccountStays
  <2>4. SearchKept'
    BY <1>1, <1>2, <1>3, <1>4, <1>6, <2>1, <2>2 DEF StopInv, SearchKept, Stop!account
  <2> QED
    BY <1>2, <2>3, <2>4 DEF StopInv
<1> QED
  BY <1>5, <1>6

LEMMA NextCandidateKeeps == ASSUME StopInv, Stop!NextCandidate PROVE StopInv'
<1>1. /\ IndexKept /\ UNCHANGED <<Stop!index, top, cand, lower, met, row, Stop!account>>
      /\ \/ at = "look" /\ at' = "pop"
         \/ at = "pop" /\ at' = "filter"
  BY DEF StopInv, Stop!NextCandidate
<1>2. IndexKept' /\ Most' = Most /\ Most \in Nat
  BY <1>1, IndexStays, MostFacts
<1>3. AccountKept'
  BY <1>1, AccountStays
<1>4. SearchKept'
  BY <1>1, <1>2 DEF StopInv, SearchKept, Stop!index, Stop!account
<1> QED
  BY <1>2, <1>3, <1>4 DEF StopInv

LEMMA FilterKeeps == ASSUME StopInv, Stop!filter_results PROVE StopInv'
<1>1. /\ IndexKept /\ UNCHANGED <<Stop!index, at, cand, lower, met, row>> /\ at = "filter"
  BY DEF StopInv, Stop!filter_results
<1>2. IndexKept' /\ Most' = Most /\ Most \in Nat /\ refused' = refused /\ condition' = condition
  BY <1>1, IndexStays, MostFacts DEF Stop!index
<1>3. PICK e \in Stop!Farthest(top) : top' = top \ {e}
  BY DEF Stop!filter_results
<1>4. AccountKept' /\ curr' \in Nat /\ curr' <= curr
  <2>1. curr \in Nat /\ condition.least \in Nat
    BY <1>1, MostFacts DEF StopInv, SearchKept
  <2>2. CASE Stop!Docs
    <3>1. curr # 0 /\ Stop!Forget(Stop!TopResult[2])
      BY <2>1, <2>2 DEF Stop!filter_results, Stop!TooMany
    <3>2. top \in SUBSET Node /\ Accounts(top, curr, counter, results)
      BY <2>2 DEF StopInv, SearchKept, AccountKept
    <3>3. Stop!TopResult = Pair(e)
      BY <1>1, <3>2, TopIs DEF Accounts
    <3>4. Stop!Forget(doc[e])
      BY <3>1, <3>3 DEF Pair
    <3> QED
      BY <1>1, <1>3, <2>2, <3>1, <3>4, PointForgotten
  <2>3. CASE ~Stop!Docs
    <3>1. UNCHANGED Stop!account
      BY <2>3 DEF Stop!filter_results
    <3> QED
      BY <1>1, <1>2, <2>1, <2>3, <3>1 DEF AccountKept, Stop!Docs, Stop!account
  <2> QED
    BY <2>2, <2>3
<1>5. SearchKept'
  BY <1>1, <1>2, <1>3, <1>4 DEF StopInv, SearchKept
<1> QED
  BY <1>2, <1>4, <1>5 DEF StopInv

LEMMA ReturnKeeps == ASSUME StopInv, Stop!Return PROVE StopInv'
<1>1. /\ IndexKept /\ UNCHANGED <<Stop!index, top, cand, lower, met, row, Stop!account>>
      /\ at = "filter" /\ at' = "done"
  BY DEF StopInv, Stop!Return
<1>2. IndexKept' /\ Most' = Most /\ Most \in Nat
  BY <1>1, IndexStays, MostFacts
<1>3. AccountKept'
  BY <1>1, AccountStays
<1>4. SearchKept'
  BY <1>1, <1>2 DEF StopInv, SearchKept, Stop!index, Stop!account
<1> QED
  BY <1>2, <1>3, <1>4 DEF StopInv

LEMMA StopStays == ASSUME StopInv, UNCHANGED Stop!vars PROVE StopInv'
<1>1. /\ IndexKept /\ UNCHANGED <<Stop!index, at, top, cand, lower, met, row, Stop!account>>
  BY DEF StopInv, Stop!vars
<1>2. IndexKept' /\ Most' = Most /\ Most \in Nat
  BY <1>1, IndexStays, MostFacts
<1>3. AccountKept'
  BY <1>1, AccountStays
<1>4. SearchKept'
  BY <1>1, <1>2 DEF StopInv, SearchKept, Stop!index, Stop!account
<1> QED
  BY <1>2, <1>3, <1>4 DEF StopInv

LEMMA StopStep == StopInv /\ [Stop!Next]_Stop!vars => StopInv'
BY BeginKeeps, PopKeeps, LookKeeps, TrimKeeps, NextCandidateKeeps, FilterKeeps, ReturnKeeps,
   StopStays DEF Stop!Next, Stop!Done

(* What a stop condition believes of the result is what the search's heap  *)
(* holds: the points of each document, how many documents there are and    *)
(* the entry of the farthest, whichever points were added, trimmed or      *)
(* filtered (hnswalg.h, searchStopConditionClosest and stop_condition.h).  *)
THEOREM AccountExactHolds == BesideSpec => []AccountExact
<1>1. StopInv => AccountExact
  <2> SUFFICES ASSUME StopInv PROVE AccountExact
    OBVIOUS
  <2>1. Stop!TypeOK
    <3>1. condition.most \in Nat /\ Most \in Nat
      BY MostFacts DEF StopInv
    <3> QED
      BY <3>1 DEF StopInv, SearchKept, Stop!TypeOK, Most
  <2>2. Stop!AccountExact
    <3>1. CASE Stop!Docs
      <4>1. Accounts(top, curr, counter, results)
        BY <3>1 DEF StopInv, AccountKept
      <4>2. /\ \A d : Stop!PointsOf(d) = PointsIn(top, d)
            /\ Stop!Found(top) = DocsIn(top)
            /\ Pairs(top) = {<<dist[e], doc[e]>> : e \in top}
        BY DEF Stop!PointsOf, Stop!Found, PointsIn, DocsIn, Pairs, Pair
      <4> QED
        BY <3>1, <4>1, <4>2, SameCardinality DEF Stop!AccountExact, Accounts
    <3>2. CASE ~Stop!Docs
      BY <3>2, SameCardinality DEF StopInv, AccountKept, Stop!AccountExact
    <3> QED
      BY <3>1, <3>2
  <2> QED
    BY <2>1, <2>2 DEF AccountExact
<1> QED
  BY <1>1, StopStep, StopInit, PartsBehave, PTL DEF Stop!Spec

-----------------------------------------------------------------------------
(* What the entry point leads to.                                          *)

Further(S) == S \union UNION {links[e] : e \in S}
Closed(C) == ep \in C /\ \A e \in C : links[e] \subseteq C

LEMMA FurtherFacts ==
  ASSUME IndexKept, NEW S \in SUBSET Node
  PROVE  /\ Further(S) \in SUBSET Node /\ S \subseteq Further(S)
         /\ \A C : Closed(C) /\ S \subseteq C => Further(S) \subseteq C
         /\ ep \in S => (Closed(S) => Further(S) = S) /\ (~Closed(S) => Further(S) # S)
<1>1. \A e \in S : links[e] \in SUBSET Node
  BY DEF IndexKept
<1>2. Further(S) \in SUBSET Node /\ S \subseteq Further(S)
  BY <1>1 DEF Further
<1>3. ASSUME NEW C, Closed(C), S \subseteq C PROVE Further(S) \subseteq C
  BY <1>3 DEF Further, Closed
<1>4. ASSUME ep \in S, Closed(S) PROVE Further(S) = S
  BY <1>2, <1>3, <1>4
<1>5. ASSUME ep \in S, Further(S) = S PROVE Closed(S)
  <2>1. ASSUME NEW e \in S PROVE links[e] \subseteq Further(S)
    BY DEF Further
  <2> QED
    BY <1>5, <2>1 DEF Closed
<1> QED
  BY <1>2, <1>3, <1>4, <1>5

LEMMA ReachedIs ==
  ASSUME IndexKept
  PROVE  \E s : /\ s[0] = {ep} /\ \A n \in 1 .. Cardinality(Node) : s[n] = Further(s[n - 1])
                /\ Stop!Reached = s[Cardinality(Node)]
<1> DEFINE N == Cardinality(Node)
           V == SUBSET Node
           start == {ep}
           step == [n \in 0 + 1 .. N |-> [S \in V |-> Further(S)]]
           Is(f) == f = [n \in 0 .. N |-> IF n = 0 THEN start ELSE Further(f[n - 1])]
<1>1. N \in Nat
  BY StopFacts, FS_CardinalityType
<1>2. \A S \in V : Further(S) \in V
  BY FurtherFacts
<1>3. start \in V
  BY DEF IndexKept
<1>4. Stop!Reached = (CHOOSE f : Is(f))[N]
  BY SameCardinality DEF Stop!Reached, Further
<1> HIDE DEF N, V, start
<1>5. Steps(step, 0, N, V)
  BY <1>2 DEF Steps
<1>6. \A n \in 0 + 1 .. N, S \in V : step[n][S] = Further(S)
  OBVIOUS
<1> HIDE DEF step
<1>7. PICK f \in [0 .. N -> V] : f[0] = start /\ \A n \in 0 + 1 .. N : f[n] = step[n][f[n - 1]]
  <2> DEFINE z == 0
  <2>1. z \in Nat /\ z <= N /\ Steps(step, z, N, V)
    BY <1>1, <1>5
  <2> HIDE DEF z
  <2>2. \E f \in [z .. N -> V] : f[z] = start /\ \A n \in z + 1 .. N : f[n] = step[n][f[n - 1]]
    BY <1>1, <1>3, <2>1, Recursion
  <2> QED
    BY <2>2 DEF z
<1>8. ASSUME NEW n \in 1 .. N PROVE f[n] = Further(f[n - 1])
  <2>1. n \in 0 + 1 .. N /\ n - 1 \in 0 .. N /\ f[n - 1] \in V
    BY <1>1
  <2> QED
    BY <1>6, <1>7, <2>1
<1>9. Is(f)
  <2>1. \A n \in 0 .. N : n = 0 \/ n \in 1 .. N
    BY <1>1
  <2>2. \A n \in 0 .. N : f[n] = IF n = 0 THEN start ELSE Further(f[n - 1])
    BY <1>7, <1>8, <2>1
  <2> QED
    BY <2>2
<1> DEFINE s == CHOOSE g : Is(g)
<1>10. Is(s)
  <2> HIDE DEF Is
  <2> QED
    BY <1>9
<1>11. s[0] = start /\ \A n \in 1 .. N : s[n] = Further(s[n - 1])
  <2>1. s = [n \in 0 .. N |-> IF n = 0 THEN start ELSE Further(s[n - 1])]
    BY <1>10
  <2> HIDE DEF s
  <2>2. 0 \in 0 .. N /\ \A n \in 1 .. N : n \in 0 .. N /\ n # 0
    BY <1>1
  <2> QED
    BY <2>1, <2>2
<1> HIDE DEF s
<1> QED
  BY <1>4, <1>11 DEF N, start, s

(* Reached is the smallest closed set: a set of the search that is not     *)
(* closed grows in the next step, and there are only so many elements.     *)
LEMMA ReachedFacts ==
  ASSUME IndexKept
  PROVE  /\ Stop!Reached \in SUBSET Node /\ Closed(Stop!Reached)
         /\ \A C : Closed(C) => Stop!Reached \subseteq C
<1> DEFINE N == Cardinality(Node)
<1>1. N \in Nat /\ IsFiniteSet(Node)
  BY StopFacts, FS_CardinalityType
<1>2. PICK s : /\ s[0] = {ep} /\ \A n \in 1 .. N : s[n] = Further(s[n - 1])
               /\ Stop!Reached = s[N]
  BY ReachedIs
<1> DEFINE Good(S) == S \in SUBSET Node /\ ep \in S /\ \A C : Closed(C) => S \subseteq C
           Grown(n) == Closed(s[n]) \/ Cardinality(s[n]) >= n + 1
           K == {n \in 0 .. N : Good(s[n]) /\ Grown(n)}
<1>3. 0 \in K
  <2>1. IsFiniteSet({ep}) /\ Cardinality({ep}) = 1
    BY FS_Singleton
  <2>2. Good({ep})
    BY DEF IndexKept, Closed
  <2>3. 0 \in 0 .. N /\ Grown(0)
    BY <1>1, <1>2, <2>1
  <2> QED
    BY <1>2, <2>2, <2>3
<1>4. ASSUME NEW n \in 0 + 1 .. N, n - 1 \in K PROVE n \in K
  <2> DEFINE S == s[n - 1]
             T == s[n]
  <2>1. n \in 1 .. N /\ n \in 0 .. N /\ n \in Nat /\ n - 1 + 1 = n
    BY <1>1
  <2>2. T = Further(S) /\ Good(S) /\ Grown(n - 1)
    BY <1>2, <1>4, <2>1
  <2>3. Good(T)
    BY <2>2, FurtherFacts
  <2>4. CASE Closed(S)
    <3>1. T = S
      BY <2>2, <2>4, FurtherFacts
    <3> QED
      BY <2>1, <2>3, <2>4, <3>1
  <2>5. CASE ~Closed(S)
    <3>1. T # S /\ S \subseteq T /\ T \subseteq Node
      BY <2>2, <2>3, <2>5, FurtherFacts
    <3>2. IsFiniteSet(T) /\ IsFiniteSet(S)
      BY <1>1, <2>2, <3>1, FS_Subset
    <3>3. /\ Cardinality(S) <= Cardinality(T) /\ Cardinality(S) # Cardinality(T)
          /\ Cardinality(S) \in Nat /\ Cardinality(T) \in Nat
      BY <3>1, <3>2, FS_Subset, FS_CardinalityType
    <3>4. Cardinality(S) >= n - 1 + 1
      BY <2>2, <2>5
    <3> HIDE DEF S, T
    <3>5. Cardinality(T) >= n + 1
      BY <2>1, <3>3, <3>4
    <3> QED
      BY <2>1, <2>3, <3>5 DEF T
  <2> QED
    BY <2>4, <2>5
<1>5. N \in K
  <2> HIDE DEF K, N
  <2> DEFINE z == 0
  <2>1. z \in Nat /\ z \in K /\ \A n \in z + 1 .. N : n - 1 \in K => n \in K
    BY <1>3, <1>4
  <2> HIDE DEF z
  <2>2. z .. N \subseteq K
    BY <1>1, <2>1, UpTo
  <2> QED
    BY <1>1, <2>2 DEF z
<1>6. Good(s[N]) /\ Grown(N)
  BY <1>5
<1>7. Closed(s[N])
  <2>1. Cardinality(s[N]) <= N /\ Cardinality(s[N]) \in Nat
    BY <1>1, <1>6, FS_Subset, FS_CardinalityType
  <2> QED
    BY <1>1, <1>6, <2>1
<1> QED
  BY <1>2, <1>6, <1>7

-----------------------------------------------------------------------------
(* What a search returns.                                                  *)

Seen == met \ refused
NearTo(e) == {f \in Seen : dist[f] <= dist[e]}
Beyond(e) == \A t \in top : dist[t] < dist[e]

(* The condition lets the search see all that it reaches.                  *)
Wide == IF Stop!Docs THEN condition.most > Cardinality(Doc)
        ELSE condition.least >= Cardinality(Node)

RowKept == at \notin {"look", "trim"} => row = {}

(* The entry point's neighbours are seen, unless the region ends before.   *)
EntryKept ==
  at # "begin" =>
    /\ ep \in met
    /\ IF ep \in cand
       THEN /\ met = {ep}
            /\ \/ at = "pop" /\ lower = Stop!CandDist(ep)
               \/ at \in {"filter", "done"} /\ ~Stop!Docs /\ Stop!CandDist(ep) > condition.epsilon
       ELSE links[ep] \subseteq met \union row

(* No more is seen than can be reached, and no less by a wide search.      *)
WithinKept == \A C : Closed(C) => met \subseteq C /\ row \subseteq C
ReachKept ==
  Wide /\ at # "begin" =>
    IF at \in {"filter", "done"} THEN Closed(met)
    ELSE \A e \in met \ cand : links[e] \subseteq met \union row

LowerKept ==
  at \in {"pop", "look"} /\ top # {} =>
    \E t \in top : lower = dist[t] /\ \A u \in top : dist[u] <= lower

(* Why a seen element is not in the result.                                *)
Cut(e) ==
  IF at \notin {"filter", "done"} THEN curr >= condition.most
  ELSE IF Stop!Docs THEN curr >= condition.least
  ELSE dist[e] > condition.epsilon \/ Cardinality(NearTo(e)) > condition.most

PrefixKept == condition.most # 0 => \A e \in Seen \ top : Cut(e) /\ Beyond(e)

EndKept == at = "done" => ~Stop!TooMany

ExactKept == RowKept /\ EntryKept /\ WithinKept /\ ReachKept /\ LowerKept /\ PrefixKept /\ EndKept

(* The index gives the same answers in the next state.                     *)
LEMMA SameIndex ==
  ASSUME UNCHANGED Stop!index
  PROVE  /\ \A C : Closed(C)' <=> Closed(C)
         /\ Wide' = Wide /\ Stop!Docs' = Stop!Docs
         /\ UNCHANGED <<links, dist, doc, refused, ep, condition>>
         /\ Stop!CandDist(ep)' = Stop!CandDist(ep)
BY DEF Stop!index, Closed, Wide, Stop!Docs, Stop!CandDist

(* How many are counted.                                                   *)
LEMMA CountFacts ==
  ASSUME StopInv
  PROVE  /\ curr \in Nat /\ condition.most \in Nat /\ condition.least \in Nat
         /\ condition.least <= condition.most
         /\ Cardinality(Doc) \in Nat /\ Cardinality(Node) \in Nat /\ Cardinality(top) \in Nat
         /\ Stop!Docs => curr = Cardinality(DocsIn(top)) /\ curr <= Cardinality(Doc)
         /\ ~Stop!Docs /\ at \notin {"filter", "done"} => curr = Cardinality(top)
         /\ Cardinality(top) <= Cardinality(Node) /\ (Cardinality(top) >= Cardinality(Node) => top = Node)
         /\ (Stop!Docs \/ at \notin {"filter", "done"}) /\ top = {} => curr = 0
<1>1. /\ IndexKept /\ curr \in Nat /\ top \in SUBSET Node /\ condition \in Conditions
      /\ doc \in [Node -> Doc]
  BY DEF StopInv, SearchKept, IndexKept
<1>2. /\ condition.most \in Nat /\ condition.least \in Nat /\ condition.least <= condition.most
      /\ IsFiniteSet(Node) /\ IsFiniteSet(Doc)
  BY <1>1, StopFacts
<1>3. Cardinality(Doc) \in Nat /\ Cardinality(Node) \in Nat
  BY <1>2, FS_CardinalityType
<1>4. /\ IsFiniteSet(top) /\ Cardinality(top) \in Nat /\ Cardinality(top) <= Cardinality(Node)
      /\ (Cardinality(Node) = Cardinality(top) => top = Node)
  BY <1>1, <1>2, FS_Subset, FS_CardinalityType
<1>5. ~Stop!Docs /\ at \notin {"filter", "done"} => curr = Cardinality(top)
  BY DEF StopInv, AccountKept
<1>6. Stop!Docs => curr = Cardinality(DocsIn(top))
  BY DEF StopInv, AccountKept, Accounts
<1>7. Cardinality(DocsIn(top)) <= Cardinality(Doc)
  <2>1. DocsIn(top) \in SUBSET Doc
    BY <1>1 DEF DocsIn
  <2> QED
    BY <1>2, <2>1, FS_Subset
<1>8. top = {} => Cardinality(top) = 0 /\ Cardinality(DocsIn(top)) = 0
  <2>1. top = {} => DocsIn(top) = {}
    BY DEF DocsIn
  <2> QED
    BY <2>1, FS_EmptySet
<1>9. Cardinality(top) >= Cardinality(Node) => top = Node
  BY <1>3, <1>4
<1> QED
  BY <1>1, <1>2, <1>3, <1>4, <1>5, <1>6, <1>7, <1>8, <1>9

LEMMA WideFacts ==
  ASSUME StopInv, Wide, at \notin {"filter", "done"}
  PROVE  /\ curr >= condition.most => top = Node
         /\ ~Stop!Docs /\ curr >= condition.least => top = Node
<1> DEFINE most == condition.most
           least == condition.least
           docs == Cardinality(Doc)
           nodes == Cardinality(Node)
<1>1. CASE Stop!Docs
  <2>1. most > docs /\ curr <= docs /\ curr \in Nat /\ docs \in Nat /\ most \in Nat
    BY <1>1, CountFacts DEF Wide
  <2> QED
    BY <1>1, <2>1
<1>2. CASE ~Stop!Docs
  <2>1. /\ curr = Cardinality(top) /\ least >= nodes /\ least <= most
        /\ curr \in Nat /\ nodes \in Nat /\ most \in Nat /\ least \in Nat
        /\ (Cardinality(top) >= nodes => top = Node)
    BY <1>2, CountFacts DEF Wide
  <2> QED
    BY <2>1
<1> QED
  BY <1>1, <1>2

LEMMA AddMoves ==
  ASSUME StopInv, NEW e, Stop!add_point_to_result(e)
  PROVE  curr' \in Nat /\ curr' >= curr
<1>1. curr \in Nat /\ (curr' = curr \/ curr' = curr + 1)
  BY CountFacts DEF Stop!add_point_to_result
<1> QED
  BY <1>1

LEMMA ForgetMoves ==
  ASSUME StopInv, NEW e, Stop!Forget(e) \/ Stop!remove_point_from_result(e)
  PROVE  curr' \in Int /\ curr' >= curr - 1
<1>1. curr \in Nat /\ (curr' = curr \/ curr' = curr - 1)
  BY CountFacts DEF Stop!remove_point_from_result, Stop!Forget
<1> QED
  BY <1>1

(* Distances are numbers, and different.                                   *)
LEMMA DistFacts ==
  ASSUME StopInv
  PROVE  /\ top \subseteq Seen /\ Seen \in SUBSET Node
         /\ \A e \in Node : dist[e] \in Nat
         /\ \A e, f \in Node : dist[e] = dist[f] => e = f
         /\ \A e : NearTo(e) \in SUBSET Node /\ IsFiniteSet(NearTo(e)) /\ Cardinality(NearTo(e)) \in Nat
<1>1. IndexKept /\ top \subseteq Seen /\ Seen \in SUBSET Node
  BY DEF StopInv, SearchKept, Seen
<1>2. \A e \in Node : dist[e] \in Nat
  BY <1>1, StopFacts DEF IndexKept
<1>3. \A e, f \in Node : dist[e] = dist[f] => e = f
  BY <1>1, DistsDiffer
<1>4. \A e : NearTo(e) \in SUBSET Node
  BY <1>1 DEF NearTo
<1>5. \A e : IsFiniteSet(NearTo(e)) /\ Cardinality(NearTo(e)) \in Nat
  BY <1>4, StopFacts, FS_Subset, FS_CardinalityType
<1> QED
  BY <1>1, <1>2, <1>3, <1>4, <1>5

LEMMA ExactInit == Stop!Init => ExactKept
<1> SUFFICES ASSUME Stop!Init PROVE ExactKept
  OBVIOUS
<1>1. at = "begin" /\ met = {} /\ row = {} /\ top = {}
  BY DEF Stop!Init
<1> QED
  BY <1>1 DEF ExactKept, RowKept, EntryKept, WithinKept, ReachKept, LowerKept, PrefixKept, EndKept, Seen

(* The steps that change neither the result nor what is counted.           *)
LEMMA PrefixStays ==
  ASSUME PrefixKept, UNCHANGED <<Stop!index, top, curr>>, Seen' = Seen,
         at' \in {"filter", "done"} <=> at \in {"filter", "done"}
  PROVE  PrefixKept'
<1>1. UNCHANGED <<dist, condition>> /\ Stop!Docs' = Stop!Docs
  BY SameIndex
<1>2. ASSUME NEW e PROVE NearTo(e)' = NearTo(e)
  BY <1>1 DEF NearTo
<1>3. ASSUME NEW e, Cut(e), Beyond(e) PROVE Cut(e)' /\ Beyond(e)'
  BY <1>1, <1>2, <1>3 DEF Cut, Beyond
<1> QED
  BY <1>1, <1>3 DEF PrefixKept

(* The search ends, and the filter begins.                                 *)
LEMMA PrefixEnds ==
  ASSUME StopInv, PrefixKept, UNCHANGED <<Stop!index, top, met, curr>>,
         at = "pop", at' = "filter"
  PROVE  PrefixKept'
<1>1. UNCHANGED <<dist, condition, refused>> /\ Stop!Docs' = Stop!Docs
  BY SameIndex
<1>2. Seen' = Seen
  BY <1>1 DEF Seen
<1>3. ASSUME NEW e PROVE NearTo(e)' = NearTo(e)
  BY <1>1, <1>2 DEF NearTo
<1>4. ASSUME NEW e \in Seen \ top, curr >= condition.most, Beyond(e) PROVE Cut(e)'
  <2>1. CASE Stop!Docs
    <3>1. curr >= condition.least
      BY <1>4, CountFacts
    <3> QED
      BY <1>1, <2>1, <3>1 DEF Cut
  <2>2. CASE ~Stop!Docs
    <3>1. top \union {e} \subseteq NearTo(e) /\ e \notin top
      BY <1>4, DistFacts DEF NearTo, Beyond
    <3>2. Cardinality(top \union {e}) = Cardinality(top) + 1 /\ IsFiniteSet(NearTo(e))
      BY <1>4, SetsFinite, DistFacts, FS_AddElement DEF StopInv, SearchKept
    <3>3. Cardinality(top) + 1 <= Cardinality(NearTo(e))
      BY <3>1, <3>2, FS_Subset
    <3>4. /\ curr = Cardinality(top) /\ condition.most \in Nat /\ Cardinality(top) \in Nat
          /\ Cardinality(NearTo(e)) \in Nat
      BY <2>2, CountFacts, DistFacts
    <3>5. Cardinality(NearTo(e)) > condition.most
      BY <1>4, <3>3, <3>4
    <3> QED
      BY <1>1, <1>3, <2>2, <3>5 DEF Cut
  <2> QED
    BY <2>1, <2>2
<1>5. ASSUME NEW e \in Seen \ top, condition.most # 0 PROVE Cut(e)' /\ Beyond(e)'
  <2>1. curr >= condition.most /\ Beyond(e)
    BY <1>5 DEF PrefixKept, Cut
  <2>2. Beyond(e)'
    BY <1>1, <2>1 DEF Beyond
  <2> QED
    BY <1>4, <2>1, <2>2
<1> QED
  BY <1>1, <1>2, <1>5 DEF PrefixKept

LEMMA BeginExact == ASSUME StopInv, ExactKept, Stop!Begin PROVE ExactKept'
<1>1. /\ at' = "pop" /\ cand' = {ep} /\ met' = {ep} /\ row' = row /\ row = {} /\ top = {}
      /\ UNCHANGED Stop!index /\ UNCHANGED <<links, dist, doc, refused, ep, condition>>
  BY SameIndex DEF Stop!Begin, ExactKept, RowKept, StopInv, SearchKept
<1>2. lower' = Stop!CandDist(ep) /\ top' = {ep} \ refused
  BY <1>1 DEF Stop!Begin, Stop!CandDist
<1>3. RowKept' /\ EndKept'
  BY <1>1 DEF RowKept, EndKept
<1>4. EntryKept'
  BY <1>1, <1>2, SameIndex DEF EntryKept
<1>5. WithinKept'
  BY <1>1, SameIndex DEF WithinKept, Closed
<1>6. ReachKept'
  BY <1>1 DEF ReachKept
<1>7. LowerKept'
  <2>1. ASSUME top' # {} PROVE top' = {ep} /\ lower' = dist[ep] /\ dist[ep] \in Nat
    <3>1. top' = {ep} /\ ep \notin refused /\ ep \in Node
      BY <1>2, <2>1 DEF StopInv, IndexKept
    <3> QED
      BY <1>2, <3>1, DistFacts DEF Stop!CandDist
  <2> QED
    BY <1>1, <2>1 DEF LowerKept
<1>8. PrefixKept'
  <2>1. Seen' = top'
    BY <1>1, <1>2 DEF Seen
  <2> QED
    BY <2>1 DEF PrefixKept
<1> QED
  BY <1>3, <1>4, <1>5, <1>6, <1>7, <1>8 DEF ExactKept

LEMMA PopExact == ASSUME StopInv, ExactKept, Stop!Pop PROVE ExactKept'
<1>1. /\ at = "pop" /\ UNCHANGED <<Stop!index, top, lower, met, curr>> /\ row = {}
      /\ UNCHANGED <<links, dist, doc, refused, ep, condition>>
  BY SameIndex DEF Stop!Pop, Stop!account, ExactKept, RowKept
<1>2. PICK e \in Stop!Nearest(cand) :
        IF Stop!should_stop_search(Stop!CandDist(e))
        THEN at' = "filter" /\ UNCHANGED <<cand, row>>
        ELSE at' = "look" /\ cand' = cand \ {e} /\ row' = links[e]
  BY DEF Stop!Pop
<1>3. /\ e \in cand /\ cand \subseteq met /\ met \subseteq Node /\ ep \in met
      /\ top \subseteq met /\ \A f \in Node : links[f] \subseteq Node
  BY DEF Stop!Nearest, StopInv, SearchKept, IndexKept, ExactKept, EntryKept, Stop!Pop
<1>4. Seen' = Seen
  BY <1>1 DEF Seen
<1>5. ep \in cand => met = {ep} /\ e = ep /\ cand = {ep} /\ lower = Stop!CandDist(ep)
  BY <1>1, <1>3 DEF ExactKept, EntryKept
<1>6. RowKept' /\ EndKept'
  BY <1>1, <1>2 DEF RowKept, EndKept
<1>7. CASE Stop!should_stop_search(Stop!CandDist(e))
  <2>1. at' = "filter" /\ UNCHANGED <<cand, row>>
    BY <1>2, <1>7
  <2>2. /\ curr >= condition.most \/ (~Stop!Docs /\ curr >= condition.least)
        /\ Stop!CandDist(e) > lower \/ (~Stop!Docs /\ Stop!CandDist(e) > condition.epsilon)
    BY <1>7, CountFacts DEF Stop!should_stop_search
  <2>3. EntryKept'
    <3>1. CASE ep \in cand
      <4>1. Stop!CandDist(ep) \in Nat
        BY <1>3, DistFacts DEF Stop!CandDist, Stop!Far
      <4>2. ~Stop!Docs /\ Stop!CandDist(ep) > condition.epsilon
        BY <1>5, <2>2, <3>1, <4>1
      <4> QED
        BY <1>1, <1>3, <1>5, <2>1, <3>1, <4>2, SameIndex DEF EntryKept
    <3>2. CASE ep \notin cand
      BY <1>1, <1>3, <2>1, <3>2 DEF ExactKept, EntryKept
    <3> QED
      BY <3>1, <3>2
  <2>4. WithinKept'
    BY <1>1, <2>1, SameIndex DEF ExactKept, WithinKept
  <2>5. ReachKept'
    <3>1. ASSUME Wide PROVE Closed(met)
      <4>1. top = Node
        BY <1>1, <2>2, <3>1, WideFacts
      <4>2. met = Node
        BY <1>3, <4>1
      <4> QED
        BY <1>3, <4>2 DEF Closed
    <3>2. Wide' = Wide /\ (Closed(met) => Closed(met)')
      BY <1>1, SameIndex DEF Closed
    <3> QED
      BY <2>1, <3>1, <3>2 DEF ReachKept
  <2>6. LowerKept'
    BY <2>1 DEF LowerKept
  <2>7. PrefixKept'
    BY <1>1, <2>1, PrefixEnds DEF ExactKept
  <2> QED
    BY <1>6, <2>3, <2>4, <2>5, <2>6, <2>7 DEF ExactKept
<1>8. CASE ~Stop!should_stop_search(Stop!CandDist(e))
  <2>1. at' = "look" /\ cand' = cand \ {e} /\ row' = links[e]
    BY <1>2, <1>8
  <2>2. EntryKept'
    <3>1. ep \notin cand'
      BY <1>5, <2>1
    <3>2. ep \in cand => links[ep] \subseteq row'
      BY <1>5, <2>1
    <3>3. ep \notin cand => links[ep] \subseteq met
      BY <1>1 DEF ExactKept, EntryKept
    <3> QED
      BY <1>1, <1>3, <2>1, <3>1, <3>2, <3>3 DEF EntryKept
  <2>3. WithinKept'
    <3>1. ASSUME NEW C, Closed(C) PROVE met \subseteq C /\ links[e] \subseteq C
      <4>1. met \subseteq C
        BY <3>1 DEF ExactKept, WithinKept
      <4> QED
        BY <1>3, <3>1, <4>1 DEF Closed
    <3> QED
      BY <1>1, <2>1, <3>1, SameIndex DEF WithinKept
  <2>4. ReachKept'
    <3>1. ASSUME Wide, NEW f \in met \ cand' PROVE links[f] \subseteq met \union row'
      BY <1>1, <2>1, <3>1 DEF ExactKept, ReachKept
    <3> QED
      BY <1>1, <2>1, <3>1, SameIndex DEF ReachKept
  <2>5. LowerKept'
    BY <1>1, <2>1 DEF ExactKept, LowerKept
  <2>6. PrefixKept'
    BY <1>1, <1>4, <2>1, PrefixStays DEF ExactKept
  <2> QED
    BY <1>6, <2>2, <2>3, <2>4, <2>5, <2>6 DEF ExactKept
<1> QED
  BY <1>7, <1>8

LEMMA LookExact == ASSUME StopInv, ExactKept, Stop!Look PROVE ExactKept'
<1>1. /\ at = "look" /\ UNCHANGED <<Stop!index, lower>>
      /\ UNCHANGED <<links, dist, doc, refused, ep, condition>>
  BY SameIndex DEF Stop!Look
<1>2. PICK e \in row :
        /\ row' = row \ {e} /\ met' = met \union {e}
        /\ IF e \notin met /\ Stop!should_consider_candidate(dist[e])
           THEN /\ cand' = cand \union {e} /\ at' = "trim"
                /\ IF e \in refused THEN UNCHANGED <<top, Stop!account>>
                   ELSE top' = top \union {e} /\ Stop!add_point_to_result(e)
           ELSE UNCHANGED <<cand, top, Stop!account, at>>
  BY DEF Stop!Look
<1>3. /\ e \in Node /\ cand \subseteq met /\ ep \in met /\ top \subseteq met /\ top \subseteq Seen
      /\ ep \notin cand /\ links[ep] \subseteq met \union row
  BY <1>1, DistFacts DEF StopInv, SearchKept, ExactKept, EntryKept
<1>4. at' \in {"look", "trim"} /\ met' \union row' = met \union row
  BY <1>1, <1>2
<1>5. RowKept' /\ EndKept'
  BY <1>4 DEF RowKept, EndKept
<1>6. EntryKept'
  <2>1. ep \notin cand'
    BY <1>2, <1>3
  <2> QED
    BY <1>1, <1>2, <1>3, <1>4, <2>1 DEF EntryKept
<1>7. WithinKept'
  <2>1. ASSUME NEW C, Closed(C) PROVE met' \subseteq C /\ row' \subseteq C
    BY <1>2, <2>1 DEF ExactKept, WithinKept
  <2> QED
    BY <1>1, <2>1, SameIndex DEF WithinKept
<1>8. ReachKept'
  <2>1. ASSUME Wide, NEW f \in met' \ cand' PROVE links[f] \subseteq met' \union row'
    <3>1. f \in met \ cand
      <4>1. CASE e \notin met /\ ~Stop!should_consider_candidate(dist[e])
        <5>1. curr >= condition.most
          BY <4>1, CountFacts DEF Stop!should_consider_candidate
        <5>2. top = Node
          BY <1>1, <2>1, <5>1, WideFacts
        <5> QED
          BY <1>3, <4>1, <5>2
      <4>2. CASE ~(e \notin met /\ ~Stop!should_consider_candidate(dist[e]))
        BY <1>2, <2>1, <4>2
      <4> QED
        BY <4>1, <4>2
    <3> QED
      BY <1>1, <1>4, <2>1, <3>1 DEF ExactKept, ReachKept
  <2> QED
    BY <1>1, <1>4, <2>1, SameIndex DEF ReachKept
<1>9. LowerKept'
  BY <1>1, <1>2 DEF ExactKept, LowerKept
<1>10. PrefixKept'
  <2>1. ASSUME NEW f \in Seen \ top, condition.most # 0 PROVE curr >= condition.most /\ Beyond(f) /\ f \in Node
    BY <1>1, <2>1, DistFacts DEF ExactKept, PrefixKept, Cut
  <2>2. ASSUME curr >= condition.most, condition.most # 0
        PROVE  \E t \in top : lower = dist[t] /\ \A u \in top : dist[u] <= lower
    <3>1. top # {}
      BY <1>1, <2>2, CountFacts
    <3> QED
      BY <1>1, <3>1 DEF ExactKept, LowerKept
  <2>3. CASE e \notin met /\ Stop!should_consider_candidate(dist[e])
    <3>1. Seen' = Seen \union ({e} \ refused) /\ top' = top \union ({e} \ refused)
      BY <1>1, <1>2, <2>3 DEF Seen
    <3>2. curr' >= curr /\ curr' \in Nat /\ at' = "trim"
      <4>1. CASE e \in refused
        BY <1>2, <2>3, <4>1, CountFacts DEF Stop!account
      <4>2. CASE e \notin refused
        BY <1>2, <2>3, <4>2, AddMoves
      <4> QED
        BY <4>1, <4>2
    <3>3. ASSUME NEW f \in Seen \ top, condition.most # 0 PROVE curr' >= condition.most /\ Beyond(f)'
      <4>1. curr >= condition.most /\ Beyond(f) /\ f \in Node
        BY <2>1, <3>3
      <4>2. PICK t \in top : lower = dist[t]
        BY <2>2, <3>3, <4>1
      <4>3. dist[e] < lower /\ lower < dist[f]
        BY <2>3, <4>1, <4>2, CountFacts DEF Stop!should_consider_candidate, Beyond
      <4>4. dist[e] < dist[f]
        BY <1>3, <4>1, <4>2, <4>3, DistFacts
      <4>5. curr' >= condition.most
        BY <3>2, <4>1, CountFacts
      <4> QED
        BY <1>1, <3>1, <4>1, <4>4, <4>5 DEF Beyond
    <3>4. Seen' \ top' \subseteq Seen \ top
      BY <3>1
    <3> QED
      BY <1>1, <3>2, <3>3, <3>4 DEF PrefixKept, Cut
  <2>4. CASE ~(e \notin met /\ Stop!should_consider_candidate(dist[e]))
    <3>1. UNCHANGED <<top, curr, at>>
      BY <1>2, <2>4 DEF Stop!account
    <3>2. CASE e \in met
      <4>1. Seen' = Seen
        BY <1>1, <1>2, <3>2 DEF Seen
      <4> QED
        BY <1>1, <3>1, <4>1, PrefixStays DEF ExactKept
    <3>3. CASE e \notin met
      <4>1. curr >= condition.most /\ lower <= dist[e]
        <5>1. curr >= condition.most /\ ~(lower > dist[e])
          BY <2>4, <3>3, CountFacts DEF Stop!should_consider_candidate
        <5>2. lower \in Nat /\ dist[e] \in Nat
          BY <1>3, DistFacts, StopFacts DEF StopInv, SearchKept, Stop!Far
        <5> QED
          BY <5>1, <5>2
      <4>2. ASSUME condition.most # 0, e \notin refused PROVE Beyond(e)
        <5>1. \A u \in top : dist[u] <= lower
          BY <2>2, <4>1, <4>2
        <5>2. ASSUME NEW u \in top PROVE dist[u] < dist[e]
          <6>1. u # e /\ u \in Node
            BY <1>3, <3>3, DistFacts
          <6>2. dist[u] # dist[e] /\ dist[u] \in Nat /\ dist[e] \in Nat
            BY <1>3, <6>1, DistFacts
          <6>3. dist[u] <= lower /\ lower \in Nat
            BY <5>1, StopFacts DEF StopInv, SearchKept, Stop!Far
          <6> QED
            BY <4>1, <6>2, <6>3
        <5> QED
          BY <5>2 DEF Beyond
      <4>3. Seen' = Seen \union ({e} \ refused)
        BY <1>1, <1>2 DEF Seen
      <4>4. ASSUME NEW f \in Seen' \ top', condition.most # 0 PROVE curr >= condition.most /\ Beyond(f)
        BY <2>1, <3>1, <4>1, <4>2, <4>3, <4>4
      <4> QED
        BY <1>1, <3>1, <4>4 DEF PrefixKept, Cut, Beyond
    <3> QED
      BY <3>2, <3>3
  <2> QED
    BY <2>3, <2>4
<1> QED
  BY <1>5, <1>6, <1>7, <1>8, <1>9, <1>10 DEF ExactKept

(* What only the visited elements, the list and the candidates decide.     *)
LEMMA SameSearch ==
  ASSUME RowKept, EntryKept, WithinKept, ReachKept, UNCHANGED <<Stop!index, met, cand>>,
         at # "begin", row' = row,
         \/ at = "trim" /\ at' \in {"trim", "look"}
         \/ at \in {"filter", "done"} /\ at' \in {"filter", "done"}
  PROVE  RowKept' /\ EntryKept' /\ WithinKept' /\ ReachKept'
<1>1. UNCHANGED <<links, dist, doc, refused, ep, condition>> /\ Wide' = Wide /\ Stop!Docs' = Stop!Docs
  BY SameIndex
<1>2. RowKept'
  BY DEF RowKept
<1>3. EntryKept'
  BY <1>1, SameIndex DEF EntryKept
<1>4. WithinKept'
  BY SameIndex DEF WithinKept
<1>5. ReachKept'
  <2>1. Closed(met) => Closed(met)'
    BY <1>1 DEF Closed
  <2> QED
    BY <1>1, <2>1 DEF ReachKept
<1> QED
  BY <1>2, <1>3, <1>4, <1>5

(* The farthest result goes: it is beyond all that stay.                   *)
LEMMA FarthestGoes ==
  ASSUME StopInv, PrefixKept, condition.most # 0, UNCHANGED Stop!index, UNCHANGED met,
         NEW e \in Stop!Farthest(top), top' = top \ {e}
  PROVE  /\ Seen' = Seen /\ e \in Seen /\ \A f : NearTo(f)' = NearTo(f)
         /\ \A f \in Seen' \ top' : Beyond(f)' /\ (f = e \/ f \in Seen \ top)
<1>1. UNCHANGED <<dist, refused>>
  BY SameIndex
<1>2. Seen' = Seen /\ e \in top /\ top \subseteq Seen /\ Seen \subseteq Node
  BY <1>1, DistFacts DEF Seen, Stop!Farthest
<1>3. \A f : NearTo(f)' = NearTo(f)
  BY <1>1, <1>2 DEF NearTo
<1>4. \A t \in top \ {e} : dist[t] < dist[e]
  <2>1. ASSUME NEW t \in top \ {e} PROVE dist[t] < dist[e]
    <3>1. dist[t] <= dist[e] /\ t # e /\ t \in Node /\ e \in Node
      BY <1>2 DEF Stop!Farthest
    <3>2. dist[t] # dist[e] /\ dist[t] \in Nat /\ dist[e] \in Nat
      BY <3>1, DistFacts
    <3> QED
      BY <3>1, <3>2
  <2> QED
    BY <2>1
<1>5. ASSUME NEW f \in Seen' \ top' PROVE Beyond(f)' /\ (f = e \/ f \in Seen \ top)
  <2>1. f = e \/ f \in Seen \ top
    BY <1>2
  <2>2. f \in Seen \ top => Beyond(f)
    BY DEF PrefixKept
  <2> QED
    BY <1>1, <1>4, <2>1, <2>2 DEF Beyond
<1> QED
  BY <1>2, <1>3, <1>5

LEMMA TrimExact == ASSUME StopInv, ExactKept, Stop!Trim PROVE ExactKept'
<1>1. /\ at = "trim" /\ UNCHANGED <<Stop!index, cand, met, row>> /\ at' \in {"trim", "look"}
      /\ UNCHANGED <<dist, condition, refused>>
  BY SameIndex DEF Stop!Trim
<1>2. RowKept' /\ EntryKept' /\ WithinKept' /\ ReachKept' /\ EndKept'
  <2>1. EndKept'
    BY <1>1 DEF EndKept
  <2> QED
    BY <1>1, <2>1, SameSearch DEF ExactKept
<1>3. CASE Stop!should_remove_extra(curr)
  <2>1. PICK e \in Stop!Farthest(top) : top' = top \ {e} /\ Stop!remove_point_from_result(e)
    BY <1>3 DEF Stop!Trim
  <2>2. at' = "trim" /\ curr' >= condition.most
    <3>1. curr > condition.most /\ curr' >= curr - 1 /\ curr \in Nat /\ condition.most \in Nat
      BY <1>3, <2>1, ForgetMoves, CountFacts DEF Stop!should_remove_extra
    <3>2. curr' \in Int
      BY <2>1, ForgetMoves
    <3> QED
      BY <1>1, <1>3, <3>1, <3>2 DEF Stop!Trim
  <2>3. LowerKept'
    BY <2>2 DEF LowerKept
  <2>4. PrefixKept'
    <3>1. ASSUME condition.most # 0, NEW f \in Seen' \ top' PROVE Cut(f)' /\ Beyond(f)'
      <4>1. Beyond(f)'
        BY <1>1, <2>1, <3>1, FarthestGoes DEF ExactKept
      <4> QED
        BY <1>1, <2>2, <4>1 DEF Cut
    <3> QED
      BY <1>1, <3>1 DEF PrefixKept
  <2> QED
    BY <1>2, <2>3, <2>4 DEF ExactKept
<1>4. CASE ~Stop!should_remove_extra(curr)
  <2>1. /\ lower' = IF top = {} THEN lower ELSE dist[CHOOSE e \in Stop!Farthest(top) : TRUE]
        /\ at' = "look" /\ UNCHANGED <<top, curr>>
    BY <1>4 DEF Stop!Trim, Stop!account
  <2>2. LowerKept'
    <3>1. ASSUME top # {} PROVE \E t \in top : lower' = dist[t] /\ \A u \in top : dist[u] <= lower'
      <4> DEFINE F == Stop!Farthest(top)
      <4>1. F # {}
        BY <3>1, FarthestExists DEF StopInv, SearchKept
      <4> HIDE DEF F
      <4>2. PICK t \in F : t = CHOOSE e \in F : TRUE
        BY <4>1
      <4>3. lower' = dist[t]
        BY <2>1, <3>1, <4>2 DEF F
      <4> QED
        BY <4>3 DEF F, Stop!Farthest
    <3> QED
      BY <1>1, <2>1, <3>1 DEF LowerKept
  <2>3. PrefixKept'
    <3>1. Seen' = Seen
      BY <1>1 DEF Seen
    <3> QED
      BY <1>1, <2>1, <3>1, PrefixStays DEF ExactKept
  <2> QED
    BY <1>2, <2>2, <2>3 DEF ExactKept
<1> QED
  BY <1>3, <1>4

LEMMA NextCandidateExact == ASSUME StopInv, ExactKept, Stop!NextCandidate PROVE ExactKept'
<1>1. /\ UNCHANGED <<Stop!index, top, cand, lower, met, row, curr>> /\ row = {}
      /\ UNCHANGED <<links, dist, doc, refused, ep, condition>>
      /\ \/ at = "look" /\ at' = "pop"
         \/ at = "pop" /\ at' = "filter" /\ cand = {}
  BY SameIndex DEF Stop!NextCandidate, Stop!account, ExactKept, RowKept
<1>2. RowKept' /\ EndKept'
  BY <1>1 DEF RowKept, EndKept
<1>3. EntryKept'
  <2>1. ep \in met /\ ep \notin cand /\ links[ep] \subseteq met \union row
    BY <1>1 DEF ExactKept, EntryKept
  <2> QED
    BY <1>1, <2>1 DEF EntryKept
<1>4. WithinKept'
  BY <1>1, SameIndex DEF ExactKept, WithinKept
<1>5. ReachKept'
  <2>1. ep \in met
    BY <1>1 DEF ExactKept, EntryKept
  <2>2. Wide => \A e \in met \ cand : links[e] \subseteq met \union row
    BY <1>1 DEF ExactKept, ReachKept
  <2>3. CASE at' = "pop"
    BY <1>1, <2>2, <2>3, SameIndex DEF ReachKept
  <2>4. CASE at' = "filter"
    <3>1. Wide => Closed(met)
      BY <1>1, <2>1, <2>2, <2>4 DEF Closed
    <3>2. Closed(met) => Closed(met)'
      BY <1>1 DEF Closed
    <3> QED
      BY <1>1, <2>4, <3>1, <3>2, SameIndex DEF ReachKept
  <2> QED
    BY <1>1, <2>3, <2>4
<1>6. LowerKept'
  BY <1>1 DEF ExactKept, LowerKept
<1>7. PrefixKept'
  <2>1. Seen' = Seen
    BY <1>1 DEF Seen
  <2>2. CASE at' = "pop"
    BY <1>1, <2>1, <2>2, PrefixStays DEF ExactKept
  <2>3. CASE at' = "filter"
    BY <1>1, <2>3, PrefixEnds DEF ExactKept
  <2> QED
    BY <1>1, <2>2, <2>3
<1> QED
  BY <1>2, <1>3, <1>4, <1>5, <1>6, <1>7 DEF ExactKept

LEMMA FilterExact == ASSUME StopInv, ExactKept, Stop!filter_results PROVE ExactKept'
<1>1. /\ at = "filter" /\ at' = "filter" /\ UNCHANGED <<Stop!index, cand, lower, met, row>>
      /\ UNCHANGED <<dist, condition, refused>> /\ Stop!Docs' = Stop!Docs /\ Stop!TooMany
  BY SameIndex DEF Stop!filter_results
<1>2. PICK e \in Stop!Farthest(top) : top' = top \ {e}
  BY DEF Stop!filter_results
<1>3. RowKept' /\ EntryKept' /\ WithinKept' /\ ReachKept'
  BY <1>1, SameSearch DEF ExactKept
<1>4. LowerKept' /\ EndKept'
  BY <1>1 DEF LowerKept, EndKept
<1>5. Stop!Docs => curr' >= condition.least
  <2> SUFFICES ASSUME Stop!Docs PROVE curr' >= condition.least
    OBVIOUS
  <2>1. /\ Stop!Forget(Stop!TopResult[2]) /\ curr > condition.least
    BY <1>1 DEF Stop!filter_results, Stop!TooMany
  <2>2. curr' = curr \/ curr' = curr - 1
    BY <2>1 DEF Stop!Forget
  <2> QED
    BY <2>1, <2>2, CountFacts
<1>6. ~Stop!Docs => dist[e] > condition.epsilon \/ Cardinality(NearTo(e)) > condition.most
  <2> SUFFICES ASSUME ~Stop!Docs PROVE dist[e] > condition.epsilon \/ Cardinality(NearTo(e)) > condition.most
    OBVIOUS
  <2>1. PICK x \in top : dist[x] > condition.epsilon \/ Cardinality(top) > condition.most
    BY <1>1, SameCardinality DEF Stop!TooMany
  <2>2. /\ e \in top /\ dist[x] <= dist[e] /\ top \subseteq NearTo(e) /\ dist[x] \in Nat /\ dist[e] \in Nat
    BY DistFacts DEF Stop!Farthest, NearTo
  <2>3. CASE dist[x] > condition.epsilon
    <3>1. condition.epsilon \in Nat
      <4>1. condition \in [kind : {"epsilon"}, epsilon : Nat, least : Nat, most : Nat]
        BY StopFacts, PartsAssumption DEF StopInv, IndexKept, Stop!StopAssumption, Stop!Docs
      <4> QED
        BY <4>1
    <3> QED
      BY <2>2, <2>3, <3>1
  <2>4. CASE Cardinality(top) > condition.most
    <3>1. Cardinality(top) <= Cardinality(NearTo(e))
      BY <2>2, DistFacts, FS_Subset
    <3>2. Cardinality(top) \in Nat /\ condition.most \in Nat /\ Cardinality(NearTo(e)) \in Nat
      BY CountFacts, DistFacts
    <3> QED
      BY <2>4, <3>1, <3>2
  <2> QED
    BY <2>1, <2>3, <2>4
<1>7. PrefixKept'
  <2>1. ASSUME condition.most # 0, NEW f \in Seen' \ top' PROVE Cut(f)' /\ Beyond(f)'
    <3>1. Beyond(f)' /\ (f = e \/ f \in Seen \ top) /\ NearTo(f)' = NearTo(f)
      BY <1>1, <1>2, <2>1, FarthestGoes DEF ExactKept
    <3>2. f \in Seen \ top => Cut(f)
      BY <2>1 DEF ExactKept, PrefixKept
    <3>3. ~Stop!Docs => dist[f] > condition.epsilon \/ Cardinality(NearTo(f)) > condition.most
      BY <1>1, <1>6, <3>1, <3>2 DEF Cut
    <3> QED
      BY <1>1, <1>5, <3>1, <3>3 DEF Cut
  <2> QED
    BY <1>1, <2>1 DEF PrefixKept
<1> QED
  BY <1>3, <1>4, <1>7 DEF ExactKept

LEMMA ReturnExact == ASSUME StopInv, ExactKept, Stop!Return PROVE ExactKept'
<1>1. /\ at = "filter" /\ at' = "done" /\ UNCHANGED <<Stop!index, top, cand, lower, met, row, curr>>
      /\ UNCHANGED <<dist, condition, refused>> /\ Stop!Docs' = Stop!Docs /\ ~Stop!TooMany
  BY SameIndex DEF Stop!Return, Stop!account
<1>2. RowKept' /\ EntryKept' /\ WithinKept' /\ ReachKept'
  BY <1>1, SameSearch DEF ExactKept
<1>3. LowerKept'
  BY <1>1 DEF LowerKept
<1>4. EndKept'
  <2>1. Stop!TooMany' = Stop!TooMany
    BY <1>1 DEF Stop!TooMany
  <2> QED
    BY <1>1, <2>1 DEF EndKept
<1>5. PrefixKept'
  <2>1. Seen' = Seen
    BY <1>1 DEF Seen
  <2> QED
    BY <1>1, <2>1, PrefixStays DEF ExactKept
<1> QED
  BY <1>2, <1>3, <1>4, <1>5 DEF ExactKept

LEMMA ExactStays == ASSUME ExactKept, UNCHANGED Stop!vars PROVE ExactKept'
<1>1. UNCHANGED <<Stop!index, at, top, cand, lower, met, row, curr>>
  BY DEF Stop!vars, Stop!account
<1>2. /\ UNCHANGED <<links, dist, doc, refused, ep, condition>>
      /\ Wide' = Wide /\ Stop!Docs' = Stop!Docs /\ Stop!CandDist(ep)' = Stop!CandDist(ep)
  BY <1>1, SameIndex
<1>3. RowKept' /\ LowerKept'
  BY <1>1, <1>2 DEF ExactKept, RowKept, LowerKept
<1>4. EntryKept'
  BY <1>1, <1>2 DEF ExactKept, EntryKept
<1>5. WithinKept'
  BY <1>1, SameIndex DEF ExactKept, WithinKept
<1>6. ReachKept'
  <2>1. Closed(met) => Closed(met)'
    BY <1>1, <1>2 DEF Closed
  <2> QED
    BY <1>1, <1>2, <2>1 DEF ExactKept, ReachKept
<1>7. PrefixKept'
  <2>1. Seen' = Seen
    BY <1>1, <1>2 DEF Seen
  <2> QED
    BY <1>1, <2>1, PrefixStays DEF ExactKept
<1>8. EndKept'
  <2>1. Stop!TooMany' = Stop!TooMany
    BY <1>1, <1>2 DEF Stop!TooMany
  <2> QED
    BY <1>1, <2>1 DEF ExactKept, EndKept
<1> QED
  BY <1>3, <1>4, <1>5, <1>6, <1>7, <1>8 DEF ExactKept

LEMMA ExactAlways == BesideSpec => [](StopInv /\ ExactKept)
<1>1. Stop!Init => StopInv /\ ExactKept
  BY StopInit, ExactInit
<1>2. StopInv /\ ExactKept /\ [Stop!Next]_Stop!vars => (StopInv /\ ExactKept)'
  BY StopStep, BeginExact, PopExact, LookExact, TrimExact, NextCandidateExact, FilterExact,
     ReturnExact, ExactStays DEF Stop!Next, Stop!Done
<1> QED
  BY <1>1, <1>2, PartsBehave, PTL DEF Stop!Spec

(* At its end a search has seen all that it can reach, if its condition is *)
(* wide, or if the entry point leads to everything and is not itself out   *)
(* of the region.                                                          *)
LEMMA LiveIsSeen ==
  ASSUME StopInv, ExactKept, at = "done",
         Wide \/ (Stop!OneHop /\ (Stop!Docs \/ ~(Stop!CandDist(ep) > condition.epsilon)))
  PROVE  Stop!Live = Seen
<1>1. Closed(Stop!Reached) /\ \A C : Closed(C) => Stop!Reached \subseteq C
  BY ReachedFacts DEF StopInv
<1>2. met \subseteq Stop!Reached
  BY <1>1 DEF ExactKept, WithinKept
<1>3. Stop!Reached \subseteq met
  <2>1. CASE Wide
    <3>1. Closed(met)
      BY <2>1 DEF ExactKept, ReachKept
    <3> QED
      BY <1>1, <3>1
  <2>2. CASE Stop!OneHop /\ (Stop!Docs \/ ~(Stop!CandDist(ep) > condition.epsilon))
    <3>1. ep \in met /\ row = {} /\ (ep \notin cand => links[ep] \subseteq met \union row)
      BY DEF ExactKept, EntryKept, RowKept
    <3>2. ep \notin cand
      BY <2>2 DEF ExactKept, EntryKept
    <3> QED
      BY <2>2, <3>1, <3>2 DEF Stop!OneHop
  <2> QED
    BY <2>1, <2>2
<1> QED
  BY <1>2, <1>3 DEF Stop!Live, Seen

(* What the result, the elements near one of it and the others have to do  *)
(* with each other.                                                        *)
LEMMA PrefixFacts ==
  ASSUME StopInv, ExactKept, condition.most # 0
  PROVE  /\ \A e \in top : NearTo(e) \subseteq top
         /\ \A e \in Seen \ top : top \union {e} \subseteq NearTo(e)
<1>1. top \subseteq Seen /\ Seen \subseteq Node /\ \A e \in Node : dist[e] \in Nat
  BY DistFacts
<1>2. \A f \in Seen \ top, t \in top : dist[t] < dist[f]
  BY DEF ExactKept, PrefixKept, Beyond
<1>3. ASSUME NEW e \in top, NEW f \in NearTo(e) PROVE f \in top
  <2>1. dist[f] <= dist[e] /\ f \in Seen /\ dist[f] \in Nat /\ dist[e] \in Nat
    BY <1>1 DEF NearTo
  <2>2. ~(dist[e] < dist[f])
    BY <2>1
  <2> QED
    BY <1>2, <2>1, <2>2
<1>4. ASSUME NEW e \in Seen \ top PROVE top \union {e} \subseteq NearTo(e)
  <2>1. ASSUME NEW t \in top PROVE dist[t] <= dist[e]
    BY <1>1, <1>2
  <2>2. dist[e] <= dist[e]
    BY <1>1
  <2> QED
    BY <1>1, <2>1, <2>2 DEF NearTo
<1> QED
  BY <1>3, <1>4

(* If nothing may be returned, nothing is.                                 *)
LEMMA NoneLeft ==
  ASSUME StopInv, ExactKept, at = "done", condition.most = 0
  PROVE  top = {}
<1>1. ~Stop!TooMany
  BY DEF ExactKept, EndKept
<1>2. IsFiniteSet(top) /\ IsFiniteSet(DocsIn(top))
  BY SetsFinite DEF StopInv, SearchKept
<1>3. CASE Stop!Docs
  <2>1. Cardinality(DocsIn(top)) = 0
    BY <1>1, <1>3, CountFacts DEF Stop!TooMany
  <2>2. DocsIn(top) = {}
    BY <1>2, <2>1, FS_EmptySet
  <2> QED
    BY <2>2 DEF DocsIn
<1>4. CASE ~Stop!Docs
  <2>1. top # {} => ~(Cardinality(top) > 0)
    BY <1>1, <1>4, SameCardinality DEF Stop!TooMany
  <2>2. Cardinality(top) \in Nat
    BY CountFacts
  <2>3. top # {} => Cardinality(top) = 0
    BY <2>1, <2>2
  <2> QED
    BY <1>2, <2>3, FS_EmptySet
<1> QED
  BY <1>3, <1>4

(* A set that has an element has at least one.                             *)
LEMMA AtLeastOne ==
  ASSUME NEW S, IsFiniteSet(S), NEW x \in S
  PROVE  Cardinality(S) \in Nat /\ Cardinality(S) > 0
<1>1. Cardinality(S) \in Nat /\ Cardinality(S) # 0
  BY FS_CardinalityType, FS_EmptySet
<1> QED
  BY <1>1

LEMMA BestDocsHolds == ASSUME StopInv, ExactKept PROVE Stop!BestDocs
<1> SUFFICES ASSUME at = "done", Stop!Docs,
                    condition.most > Stop!Cardinality(Doc) \/ Stop!OneHop,
                    NEW d \in Stop!Found(Stop!Live)
             PROVE  d \in Stop!Found(top) <=>
                      \E e \in Stop!Live :
                        doc[e] = d /\ Stop!Cardinality(Stop!Found(Stop!UpTo(e))) <= condition.least
  BY DEF Stop!BestDocs
<1> DEFINE Count(e) == Cardinality(DocsIn(NearTo(e)))
<1>1. Stop!Live = Seen
  <2>1. Wide \/ Stop!OneHop
    BY SameCardinality DEF Wide
  <2> QED
    BY <2>1, LiveIsSeen
<1>2. \A e : Stop!Cardinality(Stop!Found(Stop!UpTo(e))) = Count(e)
  BY <1>1, SameCardinality DEF Stop!Found, Stop!UpTo, DocsIn, NearTo
<1>3. Stop!Found(top) = DocsIn(top)
  BY DEF Stop!Found, DocsIn
<1>4. curr <= condition.least /\ curr = Cardinality(DocsIn(top)) /\ curr \in Nat /\ condition.least \in Nat
  BY CountFacts DEF ExactKept, EndKept, Stop!TooMany
<1>5. \A e : IsFiniteSet(DocsIn(NearTo(e))) /\ Count(e) \in Nat
  BY DistFacts, SetsFinite, FS_CardinalityType
<1>6. top \subseteq Seen /\ Seen \subseteq Node /\ \A e \in Node : dist[e] \in Nat
  BY DistFacts
<1>7. CASE condition.most = 0
  <2>1. top = {} /\ DocsIn(top) = {}
    BY <1>7, NoneLeft DEF DocsIn
  <2>2. condition.least = 0
    BY <1>7, CountFacts
  <2>3. ASSUME NEW e \in Seen PROVE ~(Count(e) <= condition.least)
    <3>1. e \in NearTo(e)
      BY <1>6 DEF NearTo
    <3>2. doc[e] \in DocsIn(NearTo(e))
      BY <3>1 DEF DocsIn
    <3>3. Count(e) > 0
      BY <1>5, <3>2, AtLeastOne
    <3> QED
      BY <1>5, <2>2, <3>3
  <2> QED
    BY <1>1, <1>2, <1>3, <2>1, <2>3
<1>8. CASE condition.most # 0
  <2>1. ASSUME NEW e \in top, doc[e] = d PROVE Count(e) <= condition.least
    <3>1. NearTo(e) \subseteq top
      BY <1>8, PrefixFacts
    <3>2. DocsIn(NearTo(e)) \subseteq DocsIn(top) /\ IsFiniteSet(DocsIn(top))
      BY <3>1, SetsFinite DEF DocsIn, StopInv, SearchKept
    <3>3. Count(e) <= curr
      BY <1>4, <3>2, FS_Subset
    <3> QED
      BY <1>4, <1>5, <3>3
  <2>2. ASSUME NEW e \in Seen, doc[e] = d, d \notin DocsIn(top) PROVE ~(Count(e) <= condition.least)
    <3>1. e \in Seen \ top
      BY <2>2 DEF DocsIn
    <3>2. curr >= condition.least
      BY <1>8, <3>1 DEF ExactKept, PrefixKept, Cut
    <3>3. DocsIn(top) \union {d} \subseteq DocsIn(NearTo(e))
      BY <1>8, <2>2, <3>1, PrefixFacts DEF DocsIn
    <3>4. Cardinality(DocsIn(top) \union {d}) = curr + 1
      BY <1>4, <2>2, SetsFinite, FS_AddElement DEF StopInv, SearchKept
    <3>5. curr + 1 <= Count(e)
      BY <1>5, <3>3, <3>4, FS_Subset
    <3> QED
      BY <1>4, <1>5, <3>2, <3>5
  <2>3. d \in DocsIn(top) => \E e \in top : doc[e] = d
    BY DEF DocsIn
  <2> HIDE DEF Count
  <2> QED
    BY <1>1, <1>2, <1>3, <1>6, <2>1, <2>2, <2>3
<1> QED
  BY <1>7, <1>8

LEMMA EpsilonFacts ==
  ASSUME StopInv, ExactKept, at = "done", ~Stop!Docs
  PROVE  /\ condition.epsilon \in Nat
         /\ \A e \in top : dist[e] <= condition.epsilon
         /\ Cardinality(top) <= condition.most
<1>1. condition.epsilon \in Nat
  <2>1. condition \in [kind : {"epsilon"}, epsilon : Nat, least : Nat, most : Nat]
    BY StopFacts, PartsAssumption DEF StopInv, IndexKept, Stop!StopAssumption, Stop!Docs
  <2> QED
    BY <2>1
<1>2. ASSUME NEW e \in top PROVE ~(dist[e] > condition.epsilon) /\ ~(Cardinality(top) > condition.most)
  BY SameCardinality DEF ExactKept, EndKept, Stop!TooMany
<1>3. \A e \in top : dist[e] \in Nat
  BY DistFacts
<1>4. ASSUME NEW e \in top PROVE dist[e] <= condition.epsilon
  BY <1>1, <1>2, <1>3
<1>5. Cardinality(top) <= condition.most
  <2>1. CASE top = {}
    BY <2>1, CountFacts, FS_EmptySet
  <2>2. CASE top # {}
    BY <1>2, <2>2, CountFacts
  <2> QED
    BY <2>1, <2>2
<1> QED
  BY <1>1, <1>4, <1>5

LEMMA RegionExactHolds == ASSUME StopInv, ExactKept PROVE Stop!RegionExact
<1> SUFFICES ASSUME at = "done", ~Stop!Docs, condition.least >= Stop!Cardinality(Node)
             PROVE  top = {e \in Stop!Live : dist[e] <= condition.epsilon}
  BY DEF Stop!RegionExact
<1> DEFINE most == condition.most
           nodes == Cardinality(Node)
<1>1. Wide
  BY SameCardinality DEF Wide
<1>2. Stop!Live = Seen
  BY <1>1, LiveIsSeen
<1>3. most >= nodes /\ most # 0 /\ most \in Nat /\ nodes \in Nat
  <2>1. nodes > 0
    BY StopFacts, AtLeastOne DEF StopInv, IndexKept
  <2>2. condition.least >= nodes
    BY SameCardinality
  <2> QED
    BY <2>1, <2>2, CountFacts
<1>4. top \subseteq Seen /\ Seen \subseteq Node /\ \A e \in Node : dist[e] \in Nat
  BY DistFacts
<1>5. ASSUME NEW e \in Seen \ top PROVE ~(dist[e] <= condition.epsilon)
  <2>1. dist[e] > condition.epsilon \/ Cardinality(NearTo(e)) > most
    BY <1>3 DEF ExactKept, PrefixKept, Cut
  <2>2. Cardinality(NearTo(e)) <= nodes /\ Cardinality(NearTo(e)) \in Nat
    BY DistFacts, StopFacts, FS_Subset
  <2>3. dist[e] > condition.epsilon
    <3> HIDE DEF most, nodes
    <3> QED
      BY <1>3, <2>1, <2>2
  <2> QED
    BY <1>4, <2>3, EpsilonFacts
<1> QED
  BY <1>2, <1>4, <1>5, EpsilonFacts

LEMMA RegionKeptHolds == ASSUME StopInv, ExactKept PROVE Stop!RegionKept
<1> SUFFICES ASSUME at = "done", ~Stop!Docs PROVE Stop!RegionKept
  BY DEF Stop!RegionKept
<1> DEFINE Count(e) == Cardinality(NearTo(e))
           most == condition.most
<1>1. /\ \A e \in top : dist[e] <= condition.epsilon
      /\ Cardinality(top) <= most /\ condition.epsilon \in Nat
  BY EpsilonFacts
<1>2. ASSUME Stop!OneHop, ep \notin refused, dist[ep] <= condition.epsilon
      PROVE  top = {e \in Stop!Live : dist[e] <= condition.epsilon /\ Stop!Cardinality(Stop!UpTo(e)) <= most}
  <2>1. Stop!Live = Seen
    <3>1. Stop!CandDist(ep) = dist[ep] /\ dist[ep] \in Nat
      BY <1>2, DistFacts DEF Stop!CandDist, StopInv, IndexKept
    <3>2. ~(Stop!CandDist(ep) > condition.epsilon)
      BY <1>1, <1>2, <3>1
    <3> QED
      BY <1>2, <3>2, LiveIsSeen
  <2>2. \A e : Stop!Cardinality(Stop!UpTo(e)) = Count(e) /\ Count(e) \in Nat
    BY <2>1, SameCardinality, DistFacts DEF Stop!UpTo, NearTo
  <2>3. top \subseteq Seen /\ Seen \subseteq Node /\ \A e \in Node : dist[e] \in Nat
    BY DistFacts
  <2>4. most \in Nat /\ Cardinality(top) \in Nat
    BY CountFacts
  <2>5. CASE most = 0
    <3>1. top = {}
      BY <2>5, NoneLeft
    <3>2. ASSUME NEW e \in Seen PROVE ~(Count(e) <= most)
      <4>1. e \in NearTo(e) /\ IsFiniteSet(NearTo(e))
        BY <2>3, DistFacts DEF NearTo
      <4>2. Count(e) \in Nat /\ Count(e) > 0
        BY <4>1, AtLeastOne
      <4> QED
        BY <2>5, <4>2
    <3> HIDE DEF Count
    <3> QED
      BY <2>1, <2>2, <3>1, <3>2
  <2>6. CASE most # 0
    <3>1. ASSUME NEW e \in top PROVE Count(e) <= most
      <4>1. NearTo(e) \subseteq top /\ IsFiniteSet(top)
        BY <2>6, PrefixFacts, SetsFinite DEF StopInv, SearchKept
      <4>2. Count(e) <= Cardinality(top)
        BY <4>1, FS_Subset
      <4> QED
        BY <1>1, <2>2, <2>4, <4>2
    <3>2. ASSUME NEW e \in Seen \ top PROVE ~(dist[e] <= condition.epsilon /\ Count(e) <= most)
      <4>1. dist[e] > condition.epsilon \/ Count(e) > most
        BY <2>6, <3>2 DEF ExactKept, PrefixKept, Cut
      <4>2. dist[e] \in Nat
        BY <2>3
      <4> HIDE DEF Count, most
      <4> QED
        BY <1>1, <2>2, <2>4, <4>1, <4>2
    <3> HIDE DEF Count, most
    <3> QED
      BY <1>1, <2>1, <2>2, <2>3, <3>1, <3>2
  <2> QED
    BY <2>5, <2>6
<1> QED
  BY <1>1, <1>2, SameCardinality DEF Stop!RegionKept

(* A search with a stop condition that sees all it can reach returns the   *)
(* internal ids of the elements of the closest documents, or of the points *)
(* of the region, as many as asked for (hnswalg.h,                         *)
(* searchStopConditionClosest and stop_condition.h), for every graph,      *)
(* order of a link list, set of refused elements and condition.            *)
THEOREM SearchExactHolds == BesideSpec => []SearchExact
<1>1. StopInv /\ ExactKept => SearchExact
  BY BestDocsHolds, RegionExactHolds, RegionKeptHolds DEF SearchExact, Stop!SearchExact
<1> QED
  BY <1>1, ExactAlways, PTL

-----------------------------------------------------------------------------
(* Points in the order of their distance, and of their label.              *)

Spot == Nat \X Nat

LEMMA FlatCardinality == \A S : Flat!Cardinality(S) = Cardinality(S)
BY Zenon DEF Flat!Cardinality, Cardinality, Flat!IsFiniteSet, IsFiniteSet

LEMMA CloserOrders ==
  ASSUME NEW p \in Spot, NEW q \in Spot
  PROVE  /\ Flat!Closer(p, p)
         /\ Flat!Closer(p, q) \/ Flat!Closer(q, p)
         /\ Flat!Closer(p, q) /\ Flat!Closer(q, p) => p = q
         /\ \A r \in Spot : Flat!Closer(p, q) /\ Flat!Closer(q, r) => Flat!Closer(p, r)
BY DEF Flat!Closer, Spot

LEMMA FarthestIs ==
  ASSUME NEW S \in SUBSET Spot, IsFiniteSet(S), S # {}
  PROVE  Flat!Farthest(S) \in S /\ \A q \in S : Flat!Closer(q, Flat!Farthest(S))
<1> DEFINE beyond(p) == {q \in S : q # p /\ Flat!Closer(p, q)}
           f == [p \in S |-> Cardinality(beyond(p))]
           Last(p) == \A q \in S : Flat!Closer(q, p)
<1>1. ASSUME NEW p \in S PROVE IsFiniteSet(beyond(p)) /\ f[p] = Cardinality(beyond(p)) /\ f[p] \in Nat
  <2>1. beyond(p) \subseteq S
    OBVIOUS
  <2> HIDE DEF beyond
  <2>2. IsFiniteSet(beyond(p))
    BY <2>1, FS_Subset
  <2> QED
    BY <2>2, FS_CardinalityType
<1>2. f \in [S -> Nat]
  <2> HIDE DEF beyond
  <2>1. \A p \in S : Cardinality(beyond(p)) \in Nat
    BY <1>1
  <2> QED
    BY <2>1
<1>3. PICK p \in S : \A x \in S : f[p] <= f[x]
  <2> HIDE DEF f
  <2> QED
    BY <1>2, SmallestOf
<1>4. ASSUME NEW q \in S PROVE Flat!Closer(q, p)
  <2>1. p \in Spot /\ q \in Spot
    OBVIOUS
  <2> SUFFICES ASSUME ~Flat!Closer(q, p) PROVE FALSE
    OBVIOUS
  <2>2. q # p /\ Flat!Closer(p, q)
    BY <2>1, CloserOrders
  <2>3. q \in beyond(p) /\ q \notin beyond(q)
    BY <2>2
  <2>4. beyond(q) \subseteq beyond(p)
    <3> SUFFICES ASSUME NEW r \in S, r # q, Flat!Closer(q, r)
                 PROVE  r # p /\ Flat!Closer(p, r)
      OBVIOUS
    <3>1. r \in Spot
      OBVIOUS
    <3> QED
      BY <2>1, <2>2, <3>1, CloserOrders
  <2>5. Cardinality(beyond(q)) < Cardinality(beyond(p))
    <3>1. beyond(q) # beyond(p) /\ IsFiniteSet(beyond(p))
      BY <1>1, <2>3
    <3> HIDE DEF beyond
    <3>2. Cardinality(beyond(q)) <= Cardinality(beyond(p)) /\ Cardinality(beyond(q)) # Cardinality(beyond(p))
      BY <2>4, <3>1, FS_Subset
    <3>3. Cardinality(beyond(q)) \in Nat /\ Cardinality(beyond(p)) \in Nat
      BY <1>1
    <3> QED
      BY <3>2, <3>3
  <2>6. f[p] <= f[q]
    BY <1>3
  <2> HIDE DEF f, beyond
  <2>7. f[p] = Cardinality(beyond(p)) /\ f[q] = Cardinality(beyond(q)) /\ f[p] \in Nat /\ f[q] \in Nat
    BY <1>1
  <2> QED
    BY <2>5, <2>6, <2>7
<1>5. Last(p)
  BY <1>4
<1>6. Flat!Farthest(S) = CHOOSE x \in S : Last(x)
  BY DEF Flat!Farthest
<1> HIDE DEF Last
<1>7. (CHOOSE x \in S : Last(x)) \in S /\ Last(CHOOSE x \in S : Last(x))
  BY <1>5
<1> QED
  BY <1>6, <1>7 DEF Last

(* T are the k first of S.                                                 *)
Best(T, S, k) ==
  /\ T \subseteq S
  /\ Cardinality(T) = IF Cardinality(S) < k THEN Cardinality(S) ELSE k
  /\ \A p \in T, q \in S \ T : Flat!Closer(p, q)

LEMMA BestKeeps ==
  ASSUME NEW S \in SUBSET Spot, IsFiniteSet(S), NEW T, NEW k \in Nat, Best(T, S, k),
         ~(Cardinality(S) < k), NEW x \in Spot \ S, \A p \in T : Flat!Closer(p, x)
  PROVE  Best(T, S \union {x}, k)
<1>1. Cardinality(S \union {x}) = Cardinality(S) + 1 /\ Cardinality(S) \in Nat
  BY FS_AddElement, FS_CardinalityType
<1>2. ~(Cardinality(S \union {x}) < k) /\ Cardinality(T) = k
  BY <1>1 DEF Best
<1> QED
  BY <1>2 DEF Best

(* Of k + 1 the farthest goes.                                             *)
LEMMA BestAdds ==
  ASSUME NEW S \in SUBSET Spot, IsFiniteSet(S), NEW T, NEW k \in Nat, Best(T, S, k),
         ~(Cardinality(S) < k), NEW x \in Spot \ S
  PROVE  /\ Cardinality(T \union {x}) = k + 1
         /\ Best((T \union {x}) \ {Flat!Farthest(T \union {x})}, S \union {x}, k)
<1> DEFINE all == T \union {x}
           far == Flat!Farthest(all)
<1>1. T \subseteq S /\ x \notin T /\ IsFiniteSet(T) /\ Cardinality(T) = k
  BY FS_Subset DEF Best
<1>2. IsFiniteSet(all) /\ Cardinality(all) = k + 1 /\ all \subseteq Spot /\ all # {}
  BY <1>1, FS_AddElement
<1> HIDE DEF all
<1>3. far \in all /\ \A q \in all : Flat!Closer(q, far)
  BY <1>2, FarthestIs
<1>4. Cardinality(all \ {far}) = k
  <2>1. Cardinality(all \ {far}) = Cardinality(all) - 1
    BY <1>2, <1>3, FS_RemoveElement
  <2> QED
    BY <1>2, <2>1
<1> HIDE DEF far
<1>5. Cardinality(S \union {x}) = Cardinality(S) + 1 /\ Cardinality(S) \in Nat
  BY FS_AddElement, FS_CardinalityType
<1>6. ASSUME NEW p \in all \ {far}, NEW q \in (S \union {x}) \ (all \ {far})
      PROVE  Flat!Closer(p, q)
  <2>1. CASE q = far
    BY <1>3, <2>1
  <2>2. CASE q # far
    <3>1. q \in S \ T
      BY <2>2 DEF all
    <3>2. CASE p \in T
      BY <3>1, <3>2 DEF Best
    <3>3. CASE p = x
      <4>1. far \in T
        BY <1>3, <3>3 DEF all
      <4>2. Flat!Closer(p, far) /\ Flat!Closer(far, q)
        BY <1>3, <3>1, <4>1 DEF Best
      <4>3. p \in Spot /\ far \in Spot /\ q \in Spot
        BY <1>1, <3>1, <3>3, <4>1
      <4> QED
        BY <4>2, <4>3, CloserOrders
    <3> QED
      BY <3>2, <3>3 DEF all
  <2> QED
    BY <2>1, <2>2
<1>7. Best(all \ {far}, S \union {x}, k)
  <2>1. ~(Cardinality(S \union {x}) < k)
    BY <1>5
  <2>2. all \ {far} \subseteq S \union {x}
    BY <1>1 DEF all
  <2> QED
    BY <1>4, <1>6, <2>1, <2>2 DEF Best
<1> QED
  BY <1>2, <1>7 DEF all, far

-----------------------------------------------------------------------------
(* The array and the dictionary of the brute force index.                  *)

Pts == [label : Label, vector : Vector]
Cells == Pts \union {Flat!Unwritten}

(* The first n slots of D hold what was stored, each label once.           *)
Holds(D, n, st) ==
  /\ D \in [1 .. maxelements_ -> Cells] /\ n \in 0 .. maxelements_
  /\ \A i \in 1 .. n : D[i] \in Pts /\ D[i].label \in DOMAIN st /\ st[D[i].label] = D[i].vector
  /\ \A i, j \in 1 .. n : D[i].label = D[j].label => i = j
  /\ \A l \in DOMAIN st : \E i \in 1 .. n : D[i].label = l

Slots == data_ \in [1 .. maxelements_ -> Cells] /\ cur_element_count \in 0 .. maxelements_

AddingKept ==
  /\ DOMAIN adding = Threads
  /\ \A t \in Threads : adding[t] # Flat!Idle =>
       adding[t].slot \in 1 .. cur_element_count /\ adding[t].point \in Pts

(* The slots and the labels are numbered one to one.                       *)
OneToOne ==
  /\ DOMAIN dict \subseteq Label /\ \A l \in DOMAIN dict : dict[l] \in 1 .. cur_element_count
  /\ \A l, m \in DOMAIN dict : dict[l] = dict[m] => l = m
  /\ \A i \in 1 .. cur_element_count : \E l \in DOMAIN dict : dict[l] = i
  /\ DOMAIN stored \subseteq DOMAIN dict

Adds(t, l) == adding[t] # Flat!Idle /\ adding[t].point.label = l
Written(l) == /\ data_[dict[l]] \in Pts /\ data_[dict[l]].label = l
              /\ l \in DOMAIN stored /\ stored[l] = data_[dict[l]].vector

(* A label has its slot's point, or an add is about to copy it.            *)
DictKept ==
  /\ OneToOne
  /\ \A t \in Threads, l \in Label : Adds(t, l) => l \in DOMAIN dict /\ adding[t].slot = dict[l]
  /\ \A l \in DOMAIN dict : Written(l) \/ \E t \in Threads : Adds(t, l)

FlatKept ==
  /\ Slots /\ AddingKept /\ loads \in Nat
  /\ loads = 0 => DictKept
  /\ loads # 0 => Flat!Quiet /\ DOMAIN dict = {} /\ Holds(data_, cur_element_count, stored)
  /\ file # Flat!NoFile => Holds(file.slots, file.count, file.stored)

FlatInv == slips = {} => FlatKept

LEMMA FlatFacts ==
  Label \subseteq Nat /\ Vector \subseteq Nat /\ maxelements_ \in Nat /\ maxelements_ # 0
BY PartsAssumption DEF Flat!BruteforceAssumption

LEMMA IdleOrNot == \A p : \A s \in Nat \ {0} : [slot |-> s, point |-> p] # Flat!Idle
BY DEF Flat!Idle

LEMMA FlatInit == Flat!Init => FlatInv
<1> SUFFICES ASSUME Flat!Init PROVE FlatKept
  BY DEF FlatInv
<1>1. /\ data_ = [i \in 1 .. maxelements_ |-> Flat!Unwritten] /\ cur_element_count = 0
      /\ DOMAIN dict = {} /\ DOMAIN stored = {} /\ file = Flat!NoFile /\ loads = 0
      /\ adding = [t \in Threads |-> Flat!Idle]
  BY DEF Flat!Init
<1>2. Slots /\ AddingKept
  BY <1>1, FlatFacts DEF Slots, AddingKept, Cells
<1>3. DictKept
  BY <1>1 DEF DictKept, OneToOne, Adds
<1> QED
  BY <1>1, <1>2, <1>3 DEF FlatKept

(* Between calls the slots hold what was stored.                           *)
LEMMA QuietHolds ==
  ASSUME FlatKept, Flat!Quiet PROVE Holds(data_, cur_element_count, stored)
<1>1. CASE loads # 0
  BY <1>1 DEF FlatKept
<1>2. CASE loads = 0
  <2>1. DictKept /\ Slots
    BY <1>2 DEF FlatKept
  <2>2. \A l \in DOMAIN dict : Written(l)
    BY <2>1 DEF DictKept, Adds, Flat!Quiet
  <2>3. ASSUME NEW i \in 1 .. cur_element_count
        PROVE  \E l \in DOMAIN dict : /\ dict[l] = i /\ data_[i] \in Pts /\ data_[i].label = l
                                      /\ l \in DOMAIN stored /\ stored[l] = data_[i].vector
    BY <2>1, <2>2 DEF DictKept, OneToOne, Written
  <2>4. ASSUME NEW i \in 1 .. cur_element_count, NEW j \in 1 .. cur_element_count,
               data_[i].label = data_[j].label
        PROVE  i = j
    BY <2>3, <2>4
  <2>5. ASSUME NEW l \in DOMAIN stored PROVE \E i \in 1 .. cur_element_count : data_[i].label = l
    <3>1. l \in DOMAIN dict
      BY <2>1 DEF DictKept, OneToOne
    <3> QED
      BY <2>1, <2>2, <3>1 DEF DictKept, OneToOne, Written
  <2> QED
    BY <2>1, <2>3, <2>4, <2>5 DEF Holds, Slots
<1> QED
  BY <1>1, <1>2

LEMMA BeginAddKeeps ==
  ASSUME FlatKept, NEW t \in Threads, Flat!BeginAdd(t) PROVE FlatInv'
<1> SUFFICES ASSUME slips' = {} PROVE FlatKept'
  BY DEF FlatInv
<1>1. loads = 0
  <2>1. slips' = Flat!Slip("add to loaded", loads > 0)
    BY DEF Flat!BeginAdd
  <2>2. ~(loads > 0)
    BY <2>1, Zenon DEF Flat!Slip
  <2>3. loads \in Nat
    BY DEF FlatKept
  <2> QED
    BY <2>2, <2>3
<1>2. /\ adding[t] = Flat!Idle /\ UNCHANGED <<data_, file, loads, stored>>
  BY DEF Flat!BeginAdd
<1>3. Slots /\ AddingKept /\ DictKept
  BY <1>1 DEF FlatKept
<1>4. PICK l \in Label, v \in Vector : Flat!SlotFor(t, l, v)
  BY DEF Flat!BeginAdd
<1> DEFINE p == [label |-> l, vector |-> v]
           a == [slot |-> dict'[l], point |-> p]
           n == cur_element_count
<1>5. p \in Pts /\ p.label = l /\ adding' = [adding EXCEPT ![t] = a] /\ a.slot = dict'[l] /\ a.point = p
  BY <1>4 DEF Flat!SlotFor, Pts
<1>6. n \in Nat /\ n <= maxelements_ /\ maxelements_ \in Nat
  BY <1>3, FlatFacts DEF Slots
<1> HIDE DEF p, a
<1>7. /\ OneToOne' /\ l \in DOMAIN dict' /\ n <= n' /\ n' \in 0 .. maxelements_
      /\ \A m \in DOMAIN dict : m \in DOMAIN dict' /\ dict'[m] = dict[m]
      /\ \A m \in DOMAIN dict' : m = l \/ m \in DOMAIN dict
  <2>1. CASE l \in DOMAIN dict
    <3>1. UNCHANGED <<dict, cur_element_count>>
      BY <1>4, <2>1 DEF Flat!SlotFor
    <3> QED
      BY <1>2, <1>3, <1>6, <2>1, <3>1 DEF DictKept, OneToOne
  <2>2. CASE l \notin DOMAIN dict
    <3>1. /\ n < maxelements_ /\ n' = n + 1
          /\ dict' = [y \in DOMAIN dict \union {l} |-> IF y = l THEN n + 1 ELSE dict[y]]
      BY <1>4, <2>2 DEF Flat!SlotFor, Flat!Put
    <3>2. DOMAIN dict' = DOMAIN dict \union {l} /\ dict'[l] = n + 1
          /\ \A m \in DOMAIN dict : dict'[m] = dict[m]
      BY <2>2, <3>1
    <3>3. OneToOne
      BY <1>3 DEF DictKept
    <3>4. \A m \in DOMAIN dict : dict[m] \in 1 .. n /\ dict[m] # n + 1
      BY <1>6, <3>3 DEF OneToOne
    <3>5. \A m \in DOMAIN dict' : dict'[m] \in 1 .. n'
      BY <1>6, <3>1, <3>2, <3>4
    <3>6. \A m, o \in DOMAIN dict' : dict'[m] = dict'[o] => m = o
      BY <3>2, <3>3, <3>4 DEF OneToOne
    <3>7. ASSUME NEW i \in 1 .. n' PROVE \E m \in DOMAIN dict' : dict'[m] = i
      <4>1. CASE i = n + 1
        BY <3>2, <4>1
      <4>2. CASE i # n + 1
        <5>1. i \in 1 .. n
          BY <1>6, <3>1, <4>2
        <5> QED
          BY <3>2, <3>3, <5>1 DEF OneToOne
      <4> QED
        BY <4>1, <4>2
    <3>8. OneToOne'
      BY <1>2, <3>2, <3>3, <3>5, <3>6, <3>7 DEF OneToOne
    <3> QED
      BY <1>6, <3>1, <3>2, <3>8
  <2> QED
    BY <2>1, <2>2
<1>8. a # Flat!Idle /\ a.slot \in 1 .. n'
  <2>1. dict'[l] \in 1 .. n'
    BY <1>7 DEF OneToOne
  <2>2. dict'[l] \in Nat \ {0}
    BY <1>7, <2>1
  <2> QED
    BY <2>1, <2>2, IdleOrNot DEF a
<1>9. adding'[t] = a /\ DOMAIN adding' = Threads /\ \A u \in Threads \ {t} : adding'[u] = adding[u]
  BY <1>3, <1>5 DEF AddingKept
<1>10. Slots' /\ AddingKept'
  <2>1. ASSUME NEW u \in Threads, adding'[u] # Flat!Idle
        PROVE  adding'[u].slot \in 1 .. n' /\ adding'[u].point \in Pts
    <3>1. CASE u = t
      BY <1>5, <1>8, <1>9, <3>1
    <3>2. CASE u # t
      <4>1. adding'[u] = adding[u] /\ adding[u].slot \in 1 .. n /\ adding[u].point \in Pts
        BY <1>3, <1>9, <2>1, <3>2 DEF AddingKept
      <4> QED
        BY <1>6, <1>7, <4>1
    <3> QED
      BY <3>1, <3>2
  <2> QED
    BY <1>2, <1>3, <1>7, <1>9, <2>1 DEF Slots, AddingKept
<1>11. ASSUME NEW u \in Threads, NEW m \in Label, Adds(u, m)'
       PROVE  m \in DOMAIN dict' /\ adding'[u].slot = dict'[m]
  <2>1. CASE u = t
    BY <1>5, <1>7, <1>9, <1>11, <2>1 DEF Adds
  <2>2. CASE u # t
    <3>1. Adds(u, m)
      BY <1>9, <1>11, <2>2 DEF Adds
    <3> QED
      BY <1>3, <1>7, <1>9, <2>2, <3>1 DEF DictKept
  <2> QED
    BY <2>1, <2>2
<1>12. ASSUME NEW m \in DOMAIN dict' PROVE Written(m)' \/ \E u \in Threads : Adds(u, m)'
  <2>1. CASE m = l
    BY <1>5, <1>8, <1>9, <2>1 DEF Adds
  <2>2. CASE m # l
    <3>1. m \in DOMAIN dict /\ dict'[m] = dict[m]
      BY <1>7, <2>2
    <3>2. CASE Written(m)
      BY <1>2, <3>1, <3>2 DEF Written
    <3>3. CASE ~Written(m)
      <4>1. PICK u \in Threads : Adds(u, m)
        BY <1>3, <3>1, <3>3 DEF DictKept
      <4>2. u # t
        BY <1>2, <4>1 DEF Adds
      <4> QED
        BY <1>9, <4>1, <4>2 DEF Adds
    <3> QED
      BY <3>2, <3>3
  <2> QED
    BY <2>1, <2>2
<1>13. DictKept'
  BY <1>7, <1>11, <1>12 DEF DictKept
<1> QED
  BY <1>1, <1>2, <1>10, <1>13 DEF FlatKept

LEMMA CopyPointKeeps ==
  ASSUME FlatKept, slips = {}, NEW t \in Threads, Flat!CopyPoint(t) PROVE FlatInv'
<1> DEFINE a == adding[t]
           k == a.point.label
<1>1. /\ a # Flat!Idle /\ data_' = [data_ EXCEPT ![a.slot] = a.point]
      /\ stored' = [y \in DOMAIN stored \union {k} |-> IF y = k THEN a.point.vector ELSE stored[y]]
      /\ adding' = [adding EXCEPT ![t] = Flat!Idle]
      /\ UNCHANGED <<cur_element_count, dict, file, loads, slips>>
  BY DEF Flat!CopyPoint, Flat!Put
<1>2. loads = 0 /\ Slots /\ AddingKept /\ DictKept
  BY <1>1 DEF FlatKept, Flat!Quiet
<1>3. a.slot \in 1 .. cur_element_count /\ a.point \in Pts /\ k \in Label
  BY <1>1, <1>2 DEF AddingKept, Pts
<1>4. a.slot \in 1 .. maxelements_
  BY <1>2, <1>3, FlatFacts DEF Slots
<1>5. Adds(t, k)
  BY <1>1 DEF Adds
<1>6. k \in DOMAIN dict /\ a.slot = dict[k] /\ OneToOne
  BY <1>2, <1>3, <1>5 DEF DictKept
<1> HIDE DEF a
<1>7. /\ data_'[a.slot] = a.point /\ \A i \in 1 .. maxelements_ : i # a.slot => data_'[i] = data_[i]
      /\ data_' \in [1 .. maxelements_ -> Cells]
  BY <1>1, <1>2, <1>3, <1>4 DEF Slots, Cells
<1>8. /\ DOMAIN adding' = Threads /\ adding'[t] = Flat!Idle
      /\ \A u \in Threads \ {t} : adding'[u] = adding[u]
  BY <1>1, <1>2 DEF AddingKept
<1>9. /\ DOMAIN stored' = DOMAIN stored \union {k} /\ stored'[k] = a.point.vector
      /\ \A m \in DOMAIN stored : m # k => stored'[m] = stored[m]
  BY <1>1
<1>10. Slots' /\ AddingKept'
  BY <1>1, <1>2, <1>7, <1>8 DEF Slots, AddingKept
<1>11. OneToOne'
  BY <1>1, <1>6, <1>9 DEF OneToOne
<1>12. ASSUME NEW u \in Threads, NEW m \in Label, Adds(u, m)'
       PROVE  m \in DOMAIN dict' /\ adding'[u].slot = dict'[m]
  <2>1. Adds(u, m) /\ adding'[u] = adding[u]
    BY <1>8, <1>12 DEF Adds
  <2> QED
    BY <1>1, <1>2, <2>1 DEF DictKept
<1>13. ASSUME NEW m \in DOMAIN dict' PROVE Written(m)' \/ \E u \in Threads : Adds(u, m)'
  <2>1. CASE m = k
    <3>1. Written(m)'
      BY <1>1, <1>3, <1>6, <1>7, <1>9, <2>1 DEF Written
    <3> QED
      BY <3>1
  <2>2. CASE m # k
    <3>1. m \in DOMAIN dict /\ dict[m] # a.slot /\ dict[m] \in 1 .. maxelements_
      BY <1>1, <1>2, <1>6, <2>2, FlatFacts DEF OneToOne, Slots
    <3>2. CASE Written(m)
      <4>1. Written(m)'
        BY <1>1, <1>7, <1>9, <2>2, <3>1, <3>2 DEF Written
      <4> QED
        BY <4>1
    <3>3. CASE ~Written(m)
      <4>1. PICK u \in Threads : Adds(u, m)
        BY <1>2, <3>1, <3>3 DEF DictKept
      <4>2. u # t
        BY <2>2, <4>1 DEF Adds, a
      <4> QED
        BY <1>8, <4>1, <4>2 DEF Adds
    <3> QED
      BY <3>2, <3>3
  <2> QED
    BY <2>1, <2>2
<1>14. DictKept'
  BY <1>11, <1>12, <1>13 DEF DictKept
<1> QED
  BY <1>1, <1>2, <1>10, <1>14 DEF FlatInv, FlatKept

(* A removal that finds nothing changes nothing, unless the index was      *)
(* loaded.                                                                 *)
LEMMA RemoveUnknownKeeps ==
  ASSUME FlatKept, slips = {}, NEW l \in Label, Flat!RemoveUnknown(l) PROVE FlatInv'
<1> SUFFICES ASSUME slips' = {} PROVE FlatKept'
  BY DEF FlatInv
<1>1. /\ slips' = Flat!Slip("remove from loaded", l \in DOMAIN stored)
      /\ stored' = Flat!Drop(stored, l)
      /\ UNCHANGED <<data_, cur_element_count, dict, adding, file, loads>>
  BY DEF Flat!RemoveUnknown
<1>2. l \notin DOMAIN stored
  BY <1>1, Zenon DEF Flat!Slip
<1>3. DOMAIN stored' = DOMAIN stored /\ \A m \in DOMAIN stored : stored'[m] = stored[m]
  BY <1>1, <1>2 DEF Flat!Drop
<1>4. Holds(data_, cur_element_count, stored) => Holds(data_', cur_element_count', stored')
  BY <1>1, <1>3 DEF Holds
<1>5. DictKept => DictKept'
  <2> SUFFICES ASSUME DictKept PROVE DictKept'
    OBVIOUS
  <2>1. OneToOne'
    BY <1>1, <1>3 DEF DictKept, OneToOne
  <2>2. \A m \in DOMAIN dict : Written(m) => Written(m)'
    BY <1>1, <1>3 DEF Written
  <2>3. \A t \in Threads : \A m : Adds(t, m)' <=> Adds(t, m)
    BY <1>1 DEF Adds
  <2> QED
    BY <1>1, <2>1, <2>2, <2>3 DEF DictKept
<1>6. Slots' /\ AddingKept'
  BY <1>1 DEF FlatKept, Slots, AddingKept
<1>7. Flat!Quiet => Flat!Quiet'
  BY <1>1 DEF Flat!Quiet
<1> QED
  BY <1>1, <1>4, <1>5, <1>6, <1>7 DEF FlatKept

(* A removal moves the last element to the slot of the one removed, if     *)
(* that is what it reads from the erased node.                             *)
LEMMA RemoveKnownKeeps ==
  ASSUME FlatKept, slips = {}, NEW l \in Label, Flat!RemoveKnown(l) PROVE FlatInv'
<1> SUFFICES ASSUME slips' = {} PROVE FlatKept'
  BY DEF FlatInv
<1> DEFINE n == cur_element_count
           s == dict[l]
           k == data_[n].label
<1>a. PICK cur_c \in 0 .. maxelements_ :
        /\ Flat!Moved(l, cur_c)
        /\ slips' = Flat!Slip("remove last", s = n) \union Flat!Slip("remove while adding", ~Flat!Quiet)
                      \union Flat!Slip("erased node", cur_c # s)
  BY DEF Flat!RemoveKnown
<1>2. s # n /\ Flat!Quiet /\ cur_c = s
  BY <1>a, Zenon DEF Flat!Slip
<1>1. /\ l \in DOMAIN dict
      /\ dict' = Flat!Put(Flat!Drop(dict, l), k, s)
      /\ data_' = [i \in DOMAIN data_ |-> IF i = s THEN data_[n] ELSE data_[i]] /\ n' = n - 1
      /\ stored' = Flat!Drop(stored, l) /\ UNCHANGED <<adding, file, loads>>
  BY <1>a, <1>2 DEF Flat!RemoveKnown, Flat!Moved
<1>3. loads = 0 /\ Slots /\ AddingKept /\ DictKept /\ OneToOne
  BY <1>1 DEF FlatKept, DictKept
<1>4. \A m \in DOMAIN dict : Written(m)
  BY <1>2, <1>3 DEF DictKept, Adds, Flat!Quiet
<1>5. n \in Nat /\ n <= maxelements_ /\ maxelements_ \in Nat
  BY <1>3, FlatFacts DEF Slots
<1>0. n' = n - 1
  BY <1>1
<1>6. s \in 1 .. n - 1 /\ n \in 1 .. n
  <2>1. s \in 1 .. n
    BY <1>1, <1>3 DEF OneToOne
  <2> QED
    BY <1>2, <1>5, <2>1
<1>7. k \in DOMAIN dict /\ dict[k] = n /\ k # l
  <2>1. PICK m \in DOMAIN dict : dict[m] = n
    BY <1>3, <1>6 DEF OneToOne
  <2>2. k = m
    BY <1>4, <2>1 DEF Written
  <2> QED
    BY <1>2, <2>1, <2>2
<1>8. /\ DOMAIN dict' = DOMAIN dict \ {l} /\ dict'[k] = s
      /\ \A m \in DOMAIN dict' : m # k => dict'[m] = dict[m]
  BY <1>1, <1>7 DEF Flat!Put, Flat!Drop
<1>9. DOMAIN stored' = DOMAIN stored \ {l} /\ \A m \in DOMAIN stored' : stored'[m] = stored[m]
  BY <1>1 DEF Flat!Drop
<1> HIDE DEF s, k
<1>10. /\ data_' \in [1 .. maxelements_ -> Cells] /\ data_'[s] = data_[n]
       /\ \A i \in 1 .. maxelements_ : i # s => data_'[i] = data_[i]
  <2>1. s \in 1 .. maxelements_ /\ n \in 1 .. maxelements_
    BY <1>5, <1>6
  <2> QED
    BY <1>1, <1>3, <2>1 DEF Slots, s
<1>11. ASSUME NEW m \in DOMAIN dict' PROVE m \in DOMAIN dict /\ (m # k => dict[m] \in 1 .. n - 1 /\ dict[m] # s)
  <2>1. m \in DOMAIN dict /\ m # l
    BY <1>8
  <2>2. dict[m] # s /\ dict[m] \in 1 .. n
    BY <1>1, <1>3, <2>1 DEF OneToOne, s
  <2>3. m # k => dict[m] # n
    BY <1>3, <1>7, <2>1 DEF OneToOne
  <2> QED
    BY <1>5, <2>1, <2>2, <2>3
<1>12. OneToOne'
  <2>1. DOMAIN dict' \subseteq Label /\ DOMAIN stored' \subseteq DOMAIN dict'
    BY <1>3, <1>8, <1>9 DEF OneToOne
  <2>2. \A m \in DOMAIN dict' : dict'[m] \in 1 .. n'
    BY <1>1, <1>6, <1>8, <1>11
  <2>3. ASSUME NEW m \in DOMAIN dict', NEW o \in DOMAIN dict', dict'[m] = dict'[o] PROVE m = o
    <3>1. m \in DOMAIN dict /\ o \in DOMAIN dict
      BY <1>11
    <3>2. m # k /\ o # k => dict[m] = dict[o]
      BY <1>8, <2>3
    <3>3. m = k /\ o # k => FALSE
      BY <1>8, <1>11, <2>3
    <3>4. m # k /\ o = k => FALSE
      BY <1>8, <1>11, <2>3
    <3> QED
      BY <1>3, <3>1, <3>2, <3>3, <3>4 DEF OneToOne
  <2>4. ASSUME NEW i \in 1 .. n' PROVE \E m \in DOMAIN dict' : dict'[m] = i
    <3>1. CASE i = s
      BY <1>7, <1>8, <3>1
    <3>2. CASE i # s
      <4>1. i \in 1 .. n /\ i # n
        BY <1>0, <1>5
      <4>2. PICK m \in DOMAIN dict : dict[m] = i
        BY <1>3, <4>1 DEF OneToOne
      <4>3. m # l /\ m # k
        BY <1>7, <3>2, <4>1, <4>2 DEF s
      <4> QED
        BY <1>8, <4>2, <4>3
    <3> QED
      BY <3>1, <3>2
  <2> QED
    BY <2>1, <2>2, <2>3, <2>4 DEF OneToOne
<1>13. ASSUME NEW m \in DOMAIN dict' PROVE Written(m)'
  <2>1. m \in DOMAIN dict /\ m # l
    BY <1>8
  <2>2. Written(m) /\ m \in DOMAIN stored' /\ stored'[m] = stored[m]
    BY <1>4, <1>9, <2>1 DEF Written
  <2>3. data_'[dict'[m]] = data_[dict[m]]
    <3>1. CASE m = k
      BY <1>7, <1>8, <1>10, <3>1
    <3>2. CASE m # k
      <4>1. dict'[m] = dict[m] /\ dict[m] \in 1 .. maxelements_ /\ dict[m] # s
        BY <1>5, <1>8, <1>11, <3>2
      <4> QED
        BY <1>10, <4>1
    <3> QED
      BY <3>1, <3>2
  <2> QED
    BY <2>2, <2>3 DEF Written
<1>14. DictKept'
  BY <1>1, <1>2, <1>12, <1>13 DEF DictKept, Adds, Flat!Quiet
<1>15. Slots' /\ AddingKept'
  <2>1. n' \in 0 .. maxelements_
    BY <1>0, <1>5, <1>6
  <2> QED
    BY <1>1, <1>2, <1>3, <1>10, <2>1 DEF Slots, AddingKept, Flat!Quiet
<1> QED
  BY <1>1, <1>3, <1>14, <1>15 DEF FlatKept

LEMMA SaveKeeps == ASSUME FlatKept, slips = {}, Flat!saveIndex PROVE FlatInv'
<1> SUFFICES ASSUME slips' = {} PROVE FlatKept'
  BY DEF FlatInv
<1>0. slips' = Flat!Slip("save while adding", ~Flat!Quiet)
  BY DEF Flat!saveIndex
<1>1. /\ Flat!Quiet /\ UNCHANGED <<data_, cur_element_count, dict, adding, loads, stored, slips>>
      /\ file' = [count |-> cur_element_count, slots |-> data_, stored |-> stored]
  BY <1>0, Zenon DEF Flat!saveIndex, Flat!Slip
<1>2. Holds(data_, cur_element_count, stored)
  BY <1>1, QuietHolds
<1>3. Holds(file'.slots, file'.count, file'.stored)
  BY <1>1, <1>2
<1>4. Slots' /\ AddingKept' /\ (loads = 0 => DictKept')
  BY <1>1 DEF FlatKept, Slots, AddingKept, DictKept, OneToOne, Adds, Written
<1> QED
  BY <1>1, <1>3, <1>4 DEF FlatInv, FlatKept, Flat!Quiet

LEMMA LoadKeeps == ASSUME FlatKept, slips = {}, Flat!loadIndex PROVE FlatInv'
<1>1. /\ Flat!Quiet /\ file # Flat!NoFile /\ UNCHANGED <<adding, file, slips>>
      /\ data_' = file.slots /\ cur_element_count' = file.count /\ stored' = file.stored
      /\ dict' = <<>> /\ loads' = loads + 1
  BY DEF Flat!loadIndex
<1>2. Holds(file.slots, file.count, file.stored) /\ loads \in Nat /\ AddingKept
  BY <1>1 DEF FlatKept
<1>3. Holds(data_', cur_element_count', stored')
  BY <1>1, <1>2
<1>4. loads' \in Nat /\ loads' # 0 /\ DOMAIN dict' = {}
  BY <1>1, <1>2
<1>5. Slots' /\ AddingKept' /\ Flat!Quiet'
  BY <1>1, <1>2, <1>3 DEF Holds, Slots, AddingKept, Flat!Quiet
<1> QED
  BY <1>1, <1>2, <1>3, <1>4, <1>5 DEF FlatInv, FlatKept

LEMMA FlatStays == ASSUME FlatInv, UNCHANGED Flat!vars PROVE FlatInv'
BY DEF Flat!vars, FlatInv, FlatKept, Slots, AddingKept, DictKept, OneToOne, Adds, Written,
       Flat!Quiet

LEMMA FlatAlways == BesideSpec => []FlatInv
<1>1. FlatInv /\ [Flat!Next]_Flat!vars => FlatInv'
  <2> SUFFICES ASSUME FlatInv, [Flat!Next]_Flat!vars PROVE FlatInv'
    OBVIOUS
  <2>1. CASE UNCHANGED Flat!vars
    BY <2>1, FlatStays
  <2>2. CASE slips = {} /\ Flat!Next
    <3>1. FlatKept /\ slips = {}
      BY <2>2 DEF FlatInv
    <3>2. \/ \E t \in Threads : Flat!BeginAdd(t) \/ Flat!CopyPoint(t)
          \/ \E l \in Label : Flat!RemoveUnknown(l) \/ Flat!RemoveKnown(l)
          \/ Flat!saveIndex \/ Flat!loadIndex \/ UNCHANGED Flat!vars
      BY <2>2 DEF Flat!Next, Flat!Search, Flat!removePoint
    <3> QED
      BY <2>1, <3>1, <3>2, BeginAddKeeps, CopyPointKeeps, RemoveUnknownKeeps,
         RemoveKnownKeeps, SaveKeeps, LoadKeeps
  <2>3. CASE slips # {} /\ Flat!Next
    BY <2>1, <2>3 DEF Flat!Next
  <2> QED
    BY <2>1, <2>2, <2>3
<1> QED
  BY <1>1, FlatInit, PartsBehave, PTL DEF Flat!Spec

-----------------------------------------------------------------------------
(* The exact search.                                                       *)

(* The points of the first j slots whose labels are allowed.               *)
Spots(j, A) == {Flat!Slot(i) : i \in {i \in 1 .. j : data_[i].label \in A}}

LEMMA SlotFacts ==
  ASSUME Holds(data_, cur_element_count, stored)
  PROVE  /\ cur_element_count \in Nat
         /\ \A i \in 1 .. cur_element_count : Flat!Slot(i) \in Spot /\ data_[i].label \in Label
         /\ \A i, j \in 1 .. cur_element_count : Flat!Slot(i) = Flat!Slot(j) => i = j
<1>1. cur_element_count \in Nat
  BY FlatFacts DEF Holds
<1>2. ASSUME NEW i \in 1 .. cur_element_count PROVE Flat!Slot(i) \in Spot /\ data_[i].label \in Label
  BY FlatFacts DEF Holds, Pts, Flat!Slot, Spot
<1>3. ASSUME NEW i \in 1 .. cur_element_count, NEW j \in 1 .. cur_element_count,
             Flat!Slot(i) = Flat!Slot(j)
      PROVE  i = j
  BY <1>3 DEF Holds, Flat!Slot
<1> QED
  BY <1>1, <1>2, <1>3

LEMMA SpotsFacts ==
  ASSUME Holds(data_, cur_element_count, stored), NEW j \in 0 .. cur_element_count, NEW A
  PROVE  /\ Spots(j, A) \subseteq Spot /\ IsFiniteSet(Spots(j, A))
         /\ Cardinality(Spots(j, A)) \in Nat /\ Cardinality(Spots(j, A)) <= j
         /\ Label \subseteq A => Cardinality(Spots(j, A)) = j
<1> DEFINE I == {i \in 1 .. j : data_[i].label \in A}
           f == [i \in I |-> Flat!Slot(i)]
<1>1. j \in Nat /\ cur_element_count \in Nat /\ j <= cur_element_count
  BY SlotFacts
<1>2. IsFiniteSet(1 .. j) /\ Cardinality(1 .. j) = j
  BY <1>1, FS_Interval
<1>3. I \subseteq 1 .. j /\ I \subseteq 1 .. cur_element_count
  BY <1>1
<1>4. Label \subseteq A => I = 1 .. j
  BY <1>3, SlotFacts
<1>5. \A i \in I : Flat!Slot(i) \in Spot
  BY <1>3, SlotFacts
<1>6. \A i, k \in I : f[i] = f[k] => i = k
  BY <1>3, SlotFacts
<1>7. Spots(j, A) = {f[i] : i \in I}
  BY DEF Spots
<1> HIDE DEF I
<1>8. IsFiniteSet(I) /\ Cardinality(I) <= j /\ Cardinality(I) \in Nat
  BY <1>2, <1>3, FS_Subset, FS_CardinalityType
<1> DEFINE T == {f[i] : i \in I}
<1>9. f \in Surjection(I, T) /\ f \in Injection(I, T)
  <2>1. DOMAIN f = I /\ f = [i \in I |-> f[i]]
    OBVIOUS
  <2> HIDE DEF f
  <2>2. f \in [I -> T]
    BY <2>1
  <2>3. f \in Surjection(I, T)
    BY <2>2 DEF Surjection
  <2> HIDE DEF T
  <2> QED
    BY <1>6, <2>1, <2>2, <2>3 DEF Injection, IsInjective
<1>10. T \subseteq Spot
  BY <1>5
<1> HIDE DEF f, T
<1>11. IsFiniteSet(T) /\ Cardinality(T) = Cardinality(I)
  BY <1>8, <1>9, FS_Surjection
<1>12. Spots(j, A) = T
  BY <1>7 DEF T
<1> QED
  BY <1>2, <1>4, <1>8, <1>10, <1>11, <1>12

LEMMA SpotsGrow ==
  ASSUME Holds(data_, cur_element_count, stored), NEW j \in 1 .. cur_element_count
  PROVE  Spots(j, Label) = Spots(j - 1, Label) \union {Flat!Slot(j)} /\ Flat!Slot(j) \in Spot \ Spots(j - 1, Label)
<1>1. cur_element_count \in Nat /\ j \in Nat
  BY SlotFacts
<1>2. \A i \in 1 .. j : i \in 1 .. cur_element_count /\ (i = j \/ i \in 1 .. j - 1)
  BY <1>1
<1>3. \A i \in 1 .. j - 1 : i # j /\ i \in 1 .. j
  BY <1>1
<1>4. \A i \in 1 .. j : data_[i].label \in Label /\ Flat!Slot(i) \in Spot
  BY <1>2, SlotFacts
<1>5. j \in 1 .. j
  BY <1>1
<1>6. \A i \in 1 .. j - 1 : Flat!Slot(i) # Flat!Slot(j)
  BY <1>2, <1>3, <1>5, SlotFacts
<1> QED
  BY <1>2, <1>3, <1>4, <1>5, <1>6 DEF Spots

(* One turn of the loop, from v.                                           *)
Turn(v, i, k, A) ==
  IF Flat!Slot(i)[1] > v.last THEN v
  ELSE [top |-> Flat!OneMore(v.top, i, k, A),
        last |-> IF Flat!OneMore(v.top, i, k, A) = {} THEN v.last
                 ELSE Flat!Farthest(Flat!OneMore(v.top, i, k, A))[1]]
Base(k, A) ==
  [top |-> Spots(k, A),
   last |-> IF Spots(k, A) = {} THEN Flat!Infinite ELSE Flat!Farthest(Spots(k, A))[1]]

LEMMA ScanIs ==
  ASSUME Holds(data_, cur_element_count, stored), NEW k \in 1 .. cur_element_count,
         NEW A \in SUBSET Label
  PROVE  \E f : /\ f[k] = Base(k, A)
                /\ \A i \in k + 1 .. cur_element_count : f[i] = Turn(f[i - 1], i, k, A)
                /\ Flat!searchKnn(k, A) = f[cur_element_count].top
<1> DEFINE n == cur_element_count
           U == Spots(n, Label)
           W == {p[1] : p \in U} \union {Flat!Infinite}
           V == [top : SUBSET U, last : W]
           step == [i \in k + 1 .. n |-> [v \in V |-> Turn(v, i, k, A)]]
           Is(f) == f = [i \in k .. n |-> IF i = k THEN Base(k, A) ELSE Turn(f[i - 1], i, k, A)]
<1>1. n \in Nat /\ k \in Nat /\ k <= n /\ n \in 0 .. n
  BY SlotFacts
<1>2. U \subseteq Spot /\ IsFiniteSet(U)
  BY <1>1, SpotsFacts
<1>3. \A i \in 1 .. n : Flat!Slot(i) \in U
  BY SlotFacts DEF Spots
<1>4. Spots(k, A) \subseteq U
  BY <1>1, SlotFacts DEF Spots
<1> HIDE DEF U
<1>5. ASSUME NEW T \in SUBSET U, T # {} PROVE Flat!Farthest(T)[1] \in W
  <2>1. IsFiniteSet(T) /\ T \in SUBSET Spot
    BY <1>2, FS_Subset
  <2>2. Flat!Farthest(T) \in T
    BY <1>5, <2>1, FarthestIs
  <2> QED
    BY <2>2
<1>6. Base(k, A) \in V
  <2> DEFINE T == Spots(k, A)
             last == IF T = {} THEN Flat!Infinite ELSE Flat!Farthest(T)[1]
  <2>1. T \in SUBSET U /\ last \in W
    BY <1>4, <1>5
  <2>2. Base(k, A) = [top |-> T, last |-> last]
    BY DEF Base
  <2> HIDE DEF T, last, W
  <2> QED
    BY <2>1, <2>2
<1>7. ASSUME NEW i \in k + 1 .. n, NEW v \in V PROVE Turn(v, i, k, A) \in V
  <2> DEFINE T == Flat!OneMore(v.top, i, k, A)
             last == IF T = {} THEN v.last ELSE Flat!Farthest(T)[1]
  <2>1. v.top \in SUBSET U /\ v.last \in W
    OBVIOUS
  <2>2. Flat!Slot(i) \in U
    BY <1>1, <1>3
  <2>3. T \in SUBSET U
    BY <2>1, <2>2 DEF Flat!OneMore
  <2>4. last \in W
    BY <1>5, <2>1, <2>3
  <2>5. Turn(v, i, k, A) = IF Flat!Slot(i)[1] > v.last THEN v ELSE [top |-> T, last |-> last]
    BY DEF Turn
  <2> HIDE DEF T, last, W
  <2>6. [top |-> T, last |-> last] \in V
    BY <2>3, <2>4
  <2> HIDE DEF V
  <2> QED
    BY <2>5, <2>6
<1> HIDE DEF V
<1>8. Steps(step, k, n, V)
  BY <1>7 DEF Steps
<1>9. \A i \in k + 1 .. n, v \in V : step[i][v] = Turn(v, i, k, A)
  OBVIOUS
<1> HIDE DEF step
<1>10. PICK f \in [k .. n -> V] :
         f[k] = Base(k, A) /\ \A i \in k + 1 .. n : f[i] = step[i][f[i - 1]]
  <2> DEFINE start == Base(k, A)
  <2>1. start \in V
    BY <1>6
  <2> HIDE DEF start, n
  <2>2. \E f \in [k .. n -> V] :
          f[k] = start /\ \A i \in k + 1 .. n : f[i] = step[i][f[i - 1]]
    BY <1>1, <1>8, <2>1, Recursion
  <2> QED
    BY <2>2 DEF start
<1>11. ASSUME NEW i \in k + 1 .. n PROVE f[i] = Turn(f[i - 1], i, k, A)
  <2>1. i - 1 \in k .. n /\ f[i - 1] \in V
    BY <1>1
  <2> QED
    BY <1>9, <1>10, <2>1
<1>12. Is(f)
  <2>1. \A i \in k .. n : i = k \/ i \in k + 1 .. n
    BY <1>1
  <2>2. \A i \in k .. n : f[i] = IF i = k THEN Base(k, A) ELSE Turn(f[i - 1], i, k, A)
    BY <1>10, <1>11, <2>1
  <2> QED
    BY <2>2
<1> DEFINE g == CHOOSE x : Is(x)
<1>13. Is(g)
  <2> HIDE DEF Is
  <2> QED
    BY <1>12
<1>14. Flat!searchKnn(k, A) = g[n].top
  BY DEF Flat!searchKnn, Turn, Base, Spots
<1> HIDE DEF g
<1>15. g[k] = Base(k, A) /\ \A i \in k + 1 .. n : g[i] = Turn(g[i - 1], i, k, A)
  <2>1. k \in k .. n
    BY <1>1
  <2>2. ASSUME NEW i \in k + 1 .. n PROVE i \in k .. n /\ i # k
    BY <1>1
  <2> QED
    BY <1>13, <2>1, <2>2
<1> QED
  BY <1>14, <1>15

(* With all labels allowed the top holds the k first of the slots so far.  *)
LEMMA AllSearched ==
  ASSUME Holds(data_, cur_element_count, stored), NEW k \in 1 .. cur_element_count
  PROVE  Best(Flat!searchKnn(k, Label), Spots(cur_element_count, Label), k)
<1> DEFINE n == cur_element_count
<1>1. n \in Nat /\ k \in Nat /\ k # 0 /\ k <= n /\ k \in 0 .. n
  BY SlotFacts
<1>2. PICK f : /\ f[k] = Base(k, Label)
               /\ \A i \in k + 1 .. n : f[i] = Turn(f[i - 1], i, k, Label)
               /\ Flat!searchKnn(k, Label) = f[n].top
  BY ScanIs
<1> DEFINE Good(i) == /\ Best(f[i].top, Spots(i, Label), k) /\ f[i].top # {}
                      /\ f[i].last = Flat!Farthest(f[i].top)[1]
           S == {i \in k .. n : Good(i)}
<1>3. k \in S
  <2> DEFINE T == Spots(k, Label)
  <2>1. Cardinality(T) = k /\ IsFiniteSet(T)
    BY <1>1, SpotsFacts
  <2>2. T # {}
    BY <1>1, <2>1, FS_EmptySet
  <2>3. f[k] = [top |-> T, last |-> IF T = {} THEN Flat!Infinite ELSE Flat!Farthest(T)[1]]
    BY <1>2 DEF Base
  <2> HIDE DEF T
  <2>4. f[k].top = T /\ f[k].last = Flat!Farthest(T)[1]
    BY <2>2, <2>3
  <2>5. Best(T, T, k)
    BY <1>1, <2>1 DEF Best
  <2> QED
    BY <1>1, <2>2, <2>4, <2>5 DEF T
<1>4. ASSUME NEW i \in k + 1 .. n, i - 1 \in S PROVE i \in S
  <2> DEFINE x == Flat!Slot(i)
             T == f[i - 1].top
             P == Spots(i - 1, Label)
             last == f[i - 1].last
  <2>1. i \in 1 .. n /\ i \in k .. n /\ i - 1 \in 0 .. n /\ i - 1 \in Nat /\ k <= i - 1
    BY <1>1
  <2>2. /\ P \in SUBSET Spot /\ IsFiniteSet(P) /\ ~(Cardinality(P) < k)
        /\ x \in Spot \ P /\ Spots(i, Label) = P \union {x} /\ x[2] \in Label
    <3>1. Cardinality(P) = i - 1 /\ P \in SUBSET Spot /\ IsFiniteSet(P)
      BY <2>1, SpotsFacts
    <3>2. x[2] = data_[i].label /\ data_[i].label \in Label
      BY <2>1, SlotFacts DEF Flat!Slot
    <3> QED
      BY <1>1, <2>1, <3>1, <3>2, SpotsGrow
  <2>3. Best(T, P, k) /\ T # {} /\ last = Flat!Farthest(T)[1] /\ f[i] = Turn(f[i - 1], i, k, Label)
    BY <1>2, <1>4
  <2>4. IsFiniteSet(T) /\ T \in SUBSET Spot
    BY <2>2, <2>3, FS_Subset DEF Best
  <2>5. Flat!Farthest(T) \in T /\ \A p \in T : Flat!Closer(p, Flat!Farthest(T))
    BY <2>3, <2>4, FarthestIs
  <2>6. CASE x[1] > last
    <3>1. f[i] = f[i - 1]
      BY <2>3, <2>6 DEF Turn
    <3> HIDE DEF x, T, P, last
    <3>2. \A p \in T : Flat!Closer(p, x)
      BY <2>2, <2>3, <2>4, <2>5, <2>6 DEF Flat!Closer, Spot
    <3>3. Best(T, P \union {x}, k)
      BY <1>1, <2>2, <2>3, <3>2, BestKeeps
    <3>4. Good(i)
      BY <2>2, <2>3, <3>1, <3>3 DEF T, last
    <3> QED
      BY <2>1, <3>4
  <2>7. CASE ~(x[1] > last)
    <3> DEFINE all == T \union {x}
               new == all \ {Flat!Farthest(all)}
    <3>1. Cardinality(all) = k + 1 /\ Best(new, P \union {x}, k)
      BY <1>1, <2>2, <2>3, BestAdds
    <3>2. Flat!OneMore(T, i, k, Label) = new
      <4>1. Flat!Cardinality(all) > k
        BY <1>1, <3>1, FlatCardinality
      <4> QED
        BY <2>2, <4>1 DEF Flat!OneMore
    <3> HIDE DEF all, new
    <3>3. new # {}
      <4>1. Cardinality(P \union {x}) = i
        <5>1. i \in 0 .. n
          BY <2>1
        <5>2. Cardinality(Spots(i, Label)) = i
          BY <5>1, SpotsFacts
        <5> QED
          BY <2>2, <5>2
      <4>2. ~(i < k)
        BY <1>1, <2>1
      <4>3. Cardinality(new) = k
        BY <3>1, <4>1, <4>2 DEF Best
      <4> QED
        BY <1>1, <4>3, FS_EmptySet
    <3>4. f[i] = [top |-> new, last |-> Flat!Farthest(new)[1]]
      BY <2>3, <2>7, <3>2, <3>3 DEF Turn
    <3>5. Good(i)
      BY <2>2, <3>1, <3>3, <3>4
    <3> QED
      BY <2>1, <3>5
  <2> QED
    BY <2>6, <2>7
<1>5. n \in S
  <2> HIDE DEF S
  <2>1. k .. n \subseteq S
    BY <1>1, <1>3, <1>4, UpTo
  <2> QED
    BY <1>1, <2>1
<1> QED
  BY <1>2, <1>5

(* What the elements of a set are when they are popped one after the other *)
(* and written from the end.                                               *)
LEMMA CloserFirst ==
  ASSUME NEW live \in SUBSET Spot, IsFiniteSet(live), NEW k \in Nat, NEW A,
         Best(Flat!searchKnn(k, A), live, k)
  PROVE  /\ DOMAIN Flat!searchKnnCloserFirst(k, A) = 1 .. Cardinality(Flat!searchKnn(k, A))
         /\ \A i \in 1 .. Cardinality(Flat!searchKnn(k, A)) :
              /\ Flat!searchKnnCloserFirst(k, A)[i] \in live
              /\ Cardinality(Flat!Nearer(live, Flat!searchKnnCloserFirst(k, A)[i])) = i - 1
<1> DEFINE ret == Flat!searchKnn(k, A)
           sz == Flat!Cardinality(ret)
           Pop(L) == L \ {Flat!Farthest(L)}
           V == SUBSET ret
           step == [j \in 1 .. sz |-> [L \in V |-> Pop(L)]]
           Is(f) == f = [j \in 0 .. sz |-> IF j = 0 THEN ret ELSE Pop(f[j - 1])]
<1>1. ret \subseteq live /\ \A p \in ret, q \in live \ ret : Flat!Closer(p, q)
  BY DEF Best
<1>2. sz = Cardinality(ret)
  BY FlatCardinality
<1>3. IsFiniteSet(ret) /\ sz \in Nat
  BY <1>1, <1>2, FS_Subset, FS_CardinalityType
<1>4. Flat!searchKnnCloserFirst(k, A) = [i \in 1 .. sz |-> Flat!Farthest((CHOOSE f : Is(f))[sz - i])]
  BY DEF Flat!searchKnnCloserFirst
<1> HIDE DEF ret, sz
<1>5. PICK f \in [0 .. sz -> V] : f[0] = ret /\ \A j \in 1 .. sz : f[j] = step[j][f[j - 1]]
  <2>1. Steps(step, 0, sz, V) /\ ret \in V /\ 0 \in Nat /\ 0 <= sz
    BY <1>3 DEF Steps
  <2> HIDE DEF step, V
  <2>2. PICK f \in [0 .. sz -> V] : f[0] = ret /\ \A j \in 0 + 1 .. sz : f[j] = step[j][f[j - 1]]
    BY <1>3, <2>1, Recursion
  <2>3. \A j \in 1 .. sz : f[j] = step[j][f[j - 1]]
    BY <2>2
  <2> QED
    BY <2>2, <2>3
<1>6. Is(f)
  <2>1. ASSUME NEW j \in 1 .. sz PROVE f[j] = Pop(f[j - 1])
    <3>1. j - 1 \in 0 .. sz /\ f[j - 1] \in V
      BY <1>3
    <3> QED
      BY <1>5, <3>1
  <2>2. \A j \in 0 .. sz : j = 0 \/ j \in 1 .. sz
    BY <1>3
  <2>3. \A j \in 0 .. sz : f[j] = IF j = 0 THEN ret ELSE Pop(f[j - 1])
    BY <1>5, <2>1, <2>2
  <2> HIDE DEF Pop, V
  <2> QED
    BY <2>3
<1> DEFINE left == CHOOSE x : Is(x)
<1>7. Is(left)
  <2> HIDE DEF Is
  <2> QED
    BY <1>6
<1> HIDE DEF left
<1>8. left[0] = ret /\ \A j \in 1 .. sz : left[j] = Pop(left[j - 1])
  <2>1. 0 \in 0 .. sz /\ \A j \in 1 .. sz : j \in 0 .. sz /\ j # 0
    BY <1>3
  <2> HIDE DEF Pop
  <2> QED
    BY <1>7, <2>1
<1> DEFINE Good(j) == /\ left[j] \subseteq ret /\ Cardinality(left[j]) = sz - j
                      /\ \A p \in left[j], q \in ret \ left[j] : Flat!Closer(p, q)
           S == {j \in 0 .. sz : Good(j)}
<1>9. 0 \in S
  <2>1. Cardinality(left[0]) = sz
    BY <1>2, <1>8
  <2> QED
    BY <1>3, <1>8, <2>1
<1>10. ASSUME NEW j \in 0 .. sz - 1, Good(j)
       PROVE  /\ Flat!Farthest(left[j]) \in left[j]
              /\ \A q \in left[j] : Flat!Closer(q, Flat!Farthest(left[j]))
  <2> DEFINE L == left[j]
  <2>1. IsFiniteSet(L) /\ L \in SUBSET Spot
    BY <1>1, <1>3, <1>10, FS_Subset
  <2>2. Cardinality(L) # 0
    BY <1>3, <1>10
  <2>3. L # {}
    BY <2>2, FS_EmptySet
  <2> HIDE DEF L
  <2>4. Flat!Farthest(L) \in L /\ \A q \in L : Flat!Closer(q, Flat!Farthest(L))
    BY <2>1, <2>3, FarthestIs
  <2> QED
    BY <2>4 DEF L
<1>11. ASSUME NEW j \in 1 .. sz, j - 1 \in S PROVE j \in S
  <2> DEFINE L == left[j - 1]
             far == Flat!Farthest(L)
  <2>1. Good(j - 1) /\ j - 1 \in 0 .. sz - 1 /\ j \in 0 .. sz
    BY <1>3, <1>11
  <2>2. left[j] = L \ {far}
    BY <1>8
  <2>3. far \in L /\ \A q \in L : Flat!Closer(q, far)
    BY <1>10, <2>1
  <2>4. L \subseteq ret /\ Cardinality(L) = sz - (j - 1) /\ \A p \in L, q \in ret \ L : Flat!Closer(p, q)
    BY <2>1
  <2> HIDE DEF L, far
  <2>5. Cardinality(left[j]) = sz - j
    <3>1. IsFiniteSet(L)
      BY <1>3, <2>4, FS_Subset
    <3>2. Cardinality(L \ {far}) = Cardinality(L) - 1
      BY <2>3, <3>1, FS_RemoveElement
    <3> QED
      BY <1>3, <2>2, <2>4, <3>2
  <2>6. Good(j)
    BY <2>2, <2>3, <2>4, <2>5
  <2> QED
    BY <2>1, <2>6
<1>12. 0 .. sz \subseteq S
  <2> HIDE DEF S
  <2>1. \A j \in 0 + 1 .. sz : j - 1 \in S => j \in S
    BY <1>11
  <2> QED
    BY <1>3, <1>9, <2>1, UpTo
<1>13. ASSUME NEW i \in 1 .. sz
       PROVE  LET found == Flat!Farthest(left[sz - i])
              IN  found \in live /\ Cardinality(Flat!Nearer(live, found)) = i - 1
  <2> DEFINE L == left[sz - i]
             far == Flat!Farthest(L)
  <2>1. sz - i \in 0 .. sz /\ sz - i \in 0 .. sz - 1 /\ sz - (sz - i) = i
    BY <1>3
  <2>2. Good(sz - i)
    BY <1>12, <2>1
  <2>3. far \in L /\ \A q \in L : Flat!Closer(q, far)
    BY <1>10, <2>1, <2>2
  <2>4. L \subseteq ret /\ Cardinality(L) = i /\ \A p \in L, q \in ret \ L : Flat!Closer(p, q)
    BY <2>1, <2>2
  <2> HIDE DEF L, far
  <2>5. \A q \in live \ L : Flat!Closer(far, q)
    BY <1>1, <2>3, <2>4
  <2>6. \A q \in live : Flat!Closer(q, far) /\ Flat!Closer(far, q) => q = far
    BY <1>1, <2>3, <2>4, CloserOrders
  <2>7. Flat!Nearer(live, far) = L \ {far}
    BY <1>1, <2>3, <2>4, <2>5, <2>6 DEF Flat!Nearer
  <2>8. Cardinality(L \ {far}) = i - 1
    <3>1. IsFiniteSet(L)
      BY <1>3, <2>4, FS_Subset
    <3>2. Cardinality(L \ {far}) = Cardinality(L) - 1
      BY <2>3, <3>1, FS_RemoveElement
    <3> QED
      BY <2>4, <3>2
  <2>9. far \in live
    BY <1>1, <2>3, <2>4
  <2> QED
    BY <2>7, <2>8, <2>9 DEF far, L
<1> DEFINE found == [i \in 1 .. sz |-> Flat!Farthest(left[sz - i])]
<1>14. Flat!searchKnnCloserFirst(k, A) = found
  BY <1>4 DEF left
<1>15. DOMAIN found = 1 .. sz /\ \A i \in 1 .. sz : found[i] = Flat!Farthest(left[sz - i])
  OBVIOUS
<1> HIDE DEF found
<1> QED
  BY <1>2, <1>13, <1>14, <1>15 DEF ret

(* When only some labels are allowed, all slots are asked for.             *)
LEMMA SomeSearched ==
  ASSUME Holds(data_, cur_element_count, stored), NEW A \in SUBSET Label, cur_element_count # 0
  PROVE  LET n == cur_element_count IN Best(Flat!searchKnn(n, A), Spots(n, A), n)
<1> DEFINE n == cur_element_count
<1>1. n \in Nat /\ n \in 1 .. n /\ n \in 0 .. n
  BY SlotFacts
<1>2. Flat!searchKnn(n, A) = Base(n, A).top
  BY <1>1, ScanIs
<1>3. Flat!searchKnn(n, A) = Spots(n, A)
  BY <1>2 DEF Base
<1>4. Cardinality(Spots(n, A)) \in Nat /\ Cardinality(Spots(n, A)) <= n
  BY <1>1, SpotsFacts
<1> QED
  BY <1>1, <1>3, <1>4 DEF Best

LEMMA LiveIs ==
  ASSUME Holds(data_, cur_element_count, stored), NEW A
  PROVE  {<<stored[l], l>> : l \in DOMAIN stored \intersect A} = Spots(cur_element_count, A)
<1> DEFINE n == cur_element_count
           live == {<<stored[l], l>> : l \in DOMAIN stored \intersect A}
<1>1. ASSUME NEW p \in live PROVE p \in Spots(n, A)
  <2>1. PICK l \in DOMAIN stored \intersect A : p = <<stored[l], l>>
    OBVIOUS
  <2>2. PICK i \in 1 .. n : data_[i].label = l
    BY <2>1 DEF Holds
  <2>3. Flat!Slot(i) = p /\ data_[i].label \in A
    BY <2>1, <2>2 DEF Holds, Flat!Slot
  <2> QED
    BY <2>2, <2>3 DEF Spots
<1>2. ASSUME NEW p \in Spots(n, A) PROVE p \in live
  <2>1. PICK i \in 1 .. n : data_[i].label \in A /\ p = Flat!Slot(i)
    BY DEF Spots
  <2> DEFINE l == data_[i].label
  <2>2. l \in DOMAIN stored /\ stored[l] = data_[i].vector /\ p = <<data_[i].vector, l>>
    BY <2>1 DEF Holds, Flat!Slot
  <2>3. l \in DOMAIN stored \intersect A /\ p = <<stored[l], l>>
    BY <2>1, <2>2
  <2> HIDE DEF l
  <2> QED
    BY <2>3
<1> QED
  BY <1>1, <1>2

(* The brute force index finds as many of the elements it was given and    *)
(* still has as were asked for, nearest first, whichever threads added     *)
(* them and wherever removals moved them, as long as it was not used in a  *)
(* way it does not stand, no label of a loaded index was removed and each  *)
(* removal read from the erased node what was in it (bruteforce.h,         *)
(* addPoint, removePoint and searchKnn).                                   *)
THEOREM KnnNearestHolds == BesideSpec => []KnnNearest
<1>1. FlatInv => Flat!TypeOK
  <2> SUFFICES ASSUME FlatInv, slips = {}
               PROVE  /\ data_ \in [1 .. maxelements_ -> Cells] /\ cur_element_count \in 0 .. maxelements_
                      /\ DOMAIN dict \subseteq Label
                      /\ \A l \in DOMAIN dict : dict[l] \in 1 .. cur_element_count
                      /\ \A t \in Threads : adding[t] = Flat!Idle \/
                           (adding[t].slot \in 1 .. cur_element_count /\ adding[t].point \in Cells)
    BY DEF Flat!TypeOK, Cells, Pts
  <2>1. FlatKept
    BY DEF FlatInv
  <2>2. Slots /\ AddingKept /\ (loads = 0 => OneToOne) /\ (loads # 0 => DOMAIN dict = {})
    BY <2>1 DEF FlatKept, DictKept
  <2> QED
    BY <2>2 DEF Slots, AddingKept, OneToOne, Cells
<1>2. FlatInv => Flat!DictExact
  <2> SUFFICES ASSUME FlatInv, slips = {}, Flat!Quiet, loads = 0
               PROVE  /\ \A i \in 1 .. cur_element_count :
                           data_[i].label \in DOMAIN dict /\ dict[data_[i].label] = i
                      /\ \A l \in DOMAIN dict : dict[l] \in 1 .. cur_element_count /\ data_[dict[l]].label = l
    BY DEF Flat!DictExact
  <2>1. DictKept
    BY DEF FlatInv, FlatKept
  <2>2. \A l \in DOMAIN dict : Written(l)
    BY <2>1 DEF DictKept, Adds, Flat!Quiet
  <2> QED
    BY <2>1, <2>2 DEF DictKept, OneToOne, Written
<1>3. FlatInv => Flat!KnnNearest
  <2> SUFFICES ASSUME FlatInv, slips = {}, Flat!Quiet,
                      NEW k \in 1 .. cur_element_count, NEW A \in SUBSET Label,
                      A = Label \/ k = cur_element_count
               PROVE  LET live == {<<stored[l], l>> : l \in DOMAIN stored \intersect A}
                          found == Flat!searchKnnCloserFirst(k, A)
                          n == IF Flat!Cardinality(live) < k THEN Flat!Cardinality(live) ELSE k
                      IN  /\ DOMAIN found = 1 .. n
                          /\ \A i \in 1 .. n :
                               found[i] \in live /\ Flat!Cardinality(Flat!Nearer(live, found[i])) = i - 1
    BY DEF Flat!KnnNearest, Flat!FindsStored
  <2> DEFINE live == {<<stored[l], l>> : l \in DOMAIN stored \intersect A}
             found == Flat!searchKnnCloserFirst(k, A)
             n == IF Cardinality(live) < k THEN Cardinality(live) ELSE k
             ret == Flat!searchKnn(k, A)
  <2>1. Holds(data_, cur_element_count, stored)
    BY QuietHolds DEF FlatInv
  <2>2. live = Spots(cur_element_count, A)
    BY <2>1, LiveIs
  <2>3. Best(ret, Spots(cur_element_count, A), k)
    <3>1. CASE A = Label
      BY <2>1, <3>1, AllSearched
    <3>2. CASE k = cur_element_count
      <4>1. cur_element_count # 0
        BY <2>1, SlotFacts
      <4> QED
        BY <2>1, <3>2, <4>1, SomeSearched
    <3> QED
      BY <3>1, <3>2
  <2>4. k \in Nat /\ cur_element_count \in 0 .. cur_element_count
    BY <2>1, SlotFacts
  <2>5. live \in SUBSET Spot /\ IsFiniteSet(live)
    BY <2>1, <2>2, <2>4, SpotsFacts
  <2>6. Cardinality(ret) = n
    BY <2>2, <2>3 DEF Best
  <2>7. /\ DOMAIN found = 1 .. Cardinality(ret)
        /\ \A i \in 1 .. Cardinality(ret) :
             found[i] \in live /\ Cardinality(Flat!Nearer(live, found[i])) = i - 1
    <3>1. Best(ret, live, k)
      BY <2>2, <2>3
    <3> HIDE DEF live
    <3> QED
      BY <2>4, <2>5, <3>1, CloserFirst
  <2>8. \A S : Flat!Cardinality(S) = Cardinality(S)
    BY FlatCardinality
  <2> HIDE DEF live, found, ret, n
  <2>9. /\ DOMAIN found = 1 .. n
        /\ \A i \in 1 .. n : found[i] \in live /\ Flat!Cardinality(Flat!Nearer(live, found[i])) = i - 1
    BY <2>6, <2>7, <2>8
  <2>10. n = IF Flat!Cardinality(live) < k THEN Flat!Cardinality(live) ELSE k
    BY <2>8 DEF n
  <2> QED
    BY <2>9, <2>10 DEF live, found
<1> QED
  BY <1>1, <1>2, <1>3, FlatAlways, PTL DEF KnnNearest

=============================================================================
