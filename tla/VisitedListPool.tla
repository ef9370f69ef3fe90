--------------------------- MODULE VisitedListPool ---------------------------
(***************************************************************************)
(* The pool of visited-marks of hnswlib/visited_list_pool.h and its use by *)
(* the graph searches of hnswalg.h (searchBaseLayer, searchBaseLayerST).   *)
(*                                                                         *)
(* A search takes a list, bumps the list's tag instead of clearing its     *)
(* marks, and treats an element as visited when its mark equals the tag.   *)
(* Tags have 16 bits and wrap around; marks are cleared only then.  A new  *)
(* list is uninitialised memory.                                           *)
(***************************************************************************)
EXTENDS Integers, Sequences, FiniteSets

CONSTANTS
  Thread,     \* the threads that search
  Element,    \* the internal ids a list has a mark for
  MaxTag,     \* largest vl_type value: 65535 in the code
  MaxLost     \* bound on how many searches are left by an exception

ASSUME ConstantsAssumption ==
  /\ MaxTag \in Nat \ {0}
  /\ MaxLost \in Nat
  /\ IsFiniteSet(Thread) /\ Thread # {}

Tag == 0..MaxTag
NoList == 0
List == 1..(Cardinality(Thread) + MaxLost)

VARIABLES
  created,   \* how many lists exist; they are numbered in order of creation
  pool,      \* the deque of free lists, front first
  curV,      \* list -> its current tag
  mass,      \* list -> its marks
  pc,        \* thread -> "idle", "taken" or "searching"
  holds,     \* thread -> the list it holds, or NoList
  visited,   \* thread -> the elements its search visited (history)
  lost       \* the lists whose search was left by an exception

vars == <<created, pool, curV, mass, pc, holds, visited, lost>>

Cleared == [e \in Element |-> 0]

(* One list to start with: marks of uninitialised memory, curV = -1.      *)
Init ==
  /\ created = 1
  /\ pool = <<1>>
  /\ curV = [x \in List |-> MaxTag]
  /\ \E garbage \in [Element -> Tag] :
       mass = [x \in List |-> IF x = 1 THEN garbage ELSE Cleared]
  /\ pc = [t \in Thread |-> "idle"]
  /\ holds = [t \in Thread |-> NoList]
  /\ visited = [t \in Thread |-> {}]
  /\ lost = {}

-----------------------------------------------------------------------------

(* Bug: the front of the deque is read but not removed. *)
TakeWithoutPop(t) ==
  /\ pc[t] = "idle"
  /\ pool # <<>>
  /\ holds' = [holds EXCEPT ![t] = Head(pool)]
  /\ pc' = [pc EXCEPT ![t] = "taken"]
  /\ UNCHANGED <<pool, created, curV, mass, visited, lost>>

(* getFreeVisitedList, under poolguard: the front of the deque, or a new   *)
(* list when it is empty.                                                  *)
Take(t) ==
  /\ pc[t] = "idle"
  /\ IF pool # <<>>
       THEN /\ holds' = [holds EXCEPT ![t] = Head(pool)]
            /\ pool' = Tail(pool)
            /\ UNCHANGED <<created, mass>>
       ELSE /\ created' = created + 1
            /\ holds' = [holds EXCEPT ![t] = created + 1]
            /\ \E garbage \in [Element -> Tag] :
                 mass' = [mass EXCEPT ![created + 1] = garbage]
            /\ UNCHANGED pool
  /\ pc' = [pc EXCEPT ![t] = "taken"]
  /\ UNCHANGED <<curV, visited, lost>>

(* Bug: the tag skips 0 but the marks are not cleared. *)
ResetKeepsMarks(t) ==
  LET x == holds[t] IN
  /\ pc[t] = "taken"
  /\ curV' = [curV EXCEPT ![x] = IF @ = MaxTag THEN 1 ELSE @ + 1]
  /\ pc' = [pc EXCEPT ![t] = "searching"]
  /\ visited' = [visited EXCEPT ![t] = {}]
  /\ UNCHANGED <<created, pool, mass, holds, lost>>

(* reset, after the lock is released: curV++, and when it wraps to 0 the   *)
(* marks are cleared and the tag becomes 1.                                *)
Reset(t) ==
  LET x == holds[t] IN
  /\ pc[t] = "taken"
  /\ IF curV[x] = MaxTag
       THEN /\ mass' = [mass EXCEPT ![x] = Cleared]
            /\ curV' = [curV EXCEPT ![x] = 1]
       ELSE /\ curV' = [curV EXCEPT ![x] = @ + 1]
            /\ UNCHANGED mass
  /\ pc' = [pc EXCEPT ![t] = "searching"]
  /\ visited' = [visited EXCEPT ![t] = {}]
  /\ UNCHANGED <<created, pool, holds, lost>>

(* visited_array[candidate_id] = visited_array_tag, when it differs. *)
Visit(t, e) ==
  LET x == holds[t] IN
  /\ pc[t] = "searching"
  /\ mass[x][e] # curV[x]
  /\ mass' = [mass EXCEPT ![x][e] = curV[x]]
  /\ visited' = [visited EXCEPT ![t] = @ \union {e}]
  /\ UNCHANGED <<created, pool, curV, pc, holds, lost>>

(* Bug: a list is freed when the pool already has one. *)
ReleaseKeepsOne(t) ==
  /\ pc[t] = "searching"
  /\ pool' = <<holds[t]>>
  /\ holds' = [holds EXCEPT ![t] = NoList]
  /\ pc' = [pc EXCEPT ![t] = "idle"]
  /\ UNCHANGED <<created, curV, mass, visited, lost>>

(* releaseVisitedList, under poolguard. *)
Release(t) ==
  /\ pc[t] = "searching"
  /\ pool' = <<holds[t]>> \o pool
  /\ holds' = [holds EXCEPT ![t] = NoList]
  /\ pc' = [pc EXCEPT ![t] = "idle"]
  /\ UNCHANGED <<created, curV, mass, visited, lost>>

(* A search left by an exception (an allocation of its queues fails) does  *)
(* not release: nothing owns the list any more.                            *)
Abandon(t) ==
  /\ pc[t] = "searching"
  /\ Cardinality(lost) < MaxLost
  /\ lost' = lost \union {holds[t]}
  /\ holds' = [holds EXCEPT ![t] = NoList]
  /\ pc' = [pc EXCEPT ![t] = "idle"]
  /\ UNCHANGED <<created, pool, curV, mass, visited>>

Next ==
  \E t \in Thread :
    \/ Take(t)
    \/ Reset(t)
    \/ \E e \in Element : Visit(t, e)
    \/ Release(t)
    \/ Abandon(t)

Spec == Init /\ [][Next]_vars

-----------------------------------------------------------------------------

InPool(x) == \E i \in 1..Len(pool) : pool[i] = x
InUse(x)  == \E t \in Thread : holds[t] = x

(* Tags and marks stay 16-bit values; lists are numbered below created. *)
TypeOK ==
  /\ created \in List
  /\ pool \in Seq(1..created)
  /\ curV \in [List -> Tag]
  /\ mass \in [List -> [Element -> Tag]]
  /\ pc \in [Thread -> {"idle", "taken", "searching"}]
  /\ holds \in [Thread -> 0..created]
  /\ visited \in [Thread -> SUBSET Element]
  /\ lost \subseteq 1..created

(* A list is used by one search at a time and is in the pool at most once, *)
(* so that no search sees marks another one makes.                         *)
ListsExclusive ==
  /\ \A t, u \in Thread : t # u /\ holds[t] # NoList => holds[t] # holds[u]
  /\ \A t \in Thread : holds[t] # NoList => ~InPool(holds[t])
  /\ \A i, j \in 1..Len(pool) : pool[i] = pool[j] => i = j

(* An element counts as visited exactly when this search visited it: a     *)
(* mark left by an earlier search, by the previous round of the 16-bit tag *)
(* or by uninitialised memory is never mistaken for a visit, which would   *)
(* silently hide the element from the search.                              *)
VisitedExact ==
  \A t \in Thread :
    pc[t] = "searching" =>
      visited[t] = {e \in Element : mass[holds[t]][e] = curV[holds[t]]}

(* Every list ever created is in the pool, in use, or was lost to an       *)
(* exception, and without exceptions there are never more than threads:    *)
(* the pool neither leaks nor grows.                                       *)
PoolBounded ==
  /\ \A x \in 1..created : InPool(x) \/ InUse(x) \/ x \in lost
  /\ created <= Cardinality(Thread) + Cardinality(lost)

=============================================================================
