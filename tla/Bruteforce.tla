----------------------------- MODULE Bruteforce -----------------------------
(***************************************************************************)
(* BruteforceSearch of hnswlib/bruteforce.h: an array of slots, the        *)
(* dictionary from labels to slots, and the exact search over the array.   *)
(*                                                                         *)
(* addPoint finds its slot under index_lock and copies the point in after  *)
(* it has let the lock go, so the two are steps of their own.  A vector is *)
(* its distance to the query.  Two adds copying into one slot at a time    *)
(* are taken as one after the other.                                       *)
(*                                                                         *)
(* The class does not stand every use.  `slips' holds what was done to it  *)
(* that it does not stand, and what went wrong when it read freed memory;  *)
(* the model goes no further then.                                         *)
(***************************************************************************)
EXTENDS Integers, FiniteSets

CONSTANTS
  Label, Vector,  \* the labels, and the distances of their vectors
  Threads,        \* the threads that call addPoint
  maxelements_,   \* the size of the array
  MaxLoads        \* bound: times the index is loaded

BruteforceAssumption ==
  /\ Label \subseteq Nat /\ Vector \subseteq Nat
  /\ maxelements_ \in Nat \ {0} /\ MaxLoads \in Nat

VARIABLES
  data_,              \* the slots: a point, or memory nobody wrote
  cur_element_count,
  dict,               \* dict_external_to_internal
  adding,             \* thread -> the slot and the point it is about to copy
  file,               \* what saveIndex wrote
  loads,              \* times the index was loaded
  stored,             \* what the calls have put in: label -> vector
  slips               \* what was done that the class does not stand (history)

vars == <<data_, cur_element_count, dict, adding, file, loads, stored, slips>>

Unwritten == [label |-> -1, vector |-> -1]
Idle == [slot |-> 0, point |-> Unwritten]
NoFile == [count |-> 0, slots |-> <<>>, stored |-> <<>>]

Put(f, x, v) == [y \in DOMAIN f \cup {x} |-> IF y = x THEN v ELSE f[y]]
Drop(f, x)   == [y \in DOMAIN f \ {x} |-> f[y]]
Quiet == \A t \in Threads : adding[t] = Idle

Init ==
  /\ data_ = [i \in 1 .. maxelements_ |-> Unwritten]
  /\ cur_element_count = 0 /\ dict = <<>> /\ file = NoFile /\ loads = 0
  /\ adding = [t \in Threads |-> Idle] /\ stored = <<>> /\ slips = {}

Slip(slip, happens) == IF happens THEN {slip} ELSE {}

(* addPoint under the lock: the slot of the label, or a new one.  A full   *)
(* array throws and changes nothing.                                       *)
SlotFor(t, l, v) ==
  /\ IF l \in DOMAIN dict THEN UNCHANGED <<dict, cur_element_count>>
     ELSE /\ cur_element_count < maxelements_
          /\ dict' = Put(dict, l, cur_element_count + 1)
          /\ cur_element_count' = cur_element_count + 1
  /\ adding' = [adding EXCEPT ![t] = [slot |-> dict'[l], point |-> [label |-> l, vector |-> v]]]

BeginAdd(t) ==
  /\ adding[t] = Idle
  /\ \E l \in Label, v \in Vector : SlotFor(t, l, v)
  /\ slips' = Slip("add to loaded", loads > 0)
  /\ UNCHANGED <<data_, file, loads, stored>>

(* addPoint after the lock: the two memcpy.                                *)
CopyPoint(t) ==
  LET a == adding[t]
  IN  /\ a # Idle
      /\ data_' = [data_ EXCEPT ![a.slot] = a.point]
      /\ stored' = Put(stored, a.point.label, a.point.vector)
      /\ adding' = [adding EXCEPT ![t] = Idle]
      /\ UNCHANGED <<cur_element_count, dict, file, loads, slips>>

(* removePoint of a label the dictionary does not have returns, also when  *)
(* the array has it: the dictionary of a loaded index is empty.            *)
RemoveUnknown(l) ==
  /\ l \notin DOMAIN dict
  /\ stored' = Drop(stored, l)
  /\ slips' = Slip("remove from loaded", l \in DOMAIN stored)
  /\ UNCHANGED <<data_, cur_element_count, dict, adding, file, loads>>

(* The last element moves to slot cur_c.                                   *)
Moved(l, cur_c) ==
  /\ dict' = Put(Drop(dict, l), data_[cur_element_count].label, cur_c)
  /\ data_' = [i \in DOMAIN data_ |-> IF i = cur_c THEN data_[cur_element_count] ELSE data_[i]]

(* removePoint of a label that is there.  The slot is read from the node   *)
(* of the dictionary after the node was erased: any number may come back,  *)
(* 0 standing for those that are no slot of the array.                     *)
RemoveKnown(l) ==
  /\ l \in DOMAIN dict
  /\ \E cur_c \in 0 .. maxelements_ :
       /\ Moved(l, cur_c)
       /\ slips' = Slip("remove last", dict[l] = cur_element_count)
                     \cup Slip("remove while adding", ~Quiet)
                     \cup Slip("erased node", cur_c # dict[l])
  /\ cur_element_count' = cur_element_count - 1
  /\ stored' = Drop(stored, l)
  /\ UNCHANGED <<adding, file, loads>>

removePoint(l) == RemoveUnknown(l) \/ RemoveKnown(l)

(* No lock is taken: a slot may be written that is not copied yet.         *)
saveIndex ==
  /\ file' = [count |-> cur_element_count, slots |-> data_, stored |-> stored]
  /\ slips' = Slip("save while adding", ~Quiet)
  /\ UNCHANGED <<data_, cur_element_count, dict, adding, loads, stored>>

(* A new index is made from the file.  Its dictionary is empty.            *)
loadIndex ==
  /\ Quiet /\ file # NoFile /\ loads < MaxLoads
  /\ data_' = file.slots /\ cur_element_count' = file.count /\ stored' = file.stored
  /\ dict' = <<>> /\ loads' = loads + 1
  /\ UNCHANGED <<adding, file, slips>>

(* An index that no call can change any more is searched for ever.         *)
Search == Quiet /\ UNCHANGED vars

Next ==
  \/ slips = {} /\ \/ \E t \in Threads : BeginAdd(t) \/ CopyPoint(t)
                   \/ \E l \in Label : removePoint(l)
                   \/ saveIndex \/ loadIndex \/ Search
  \/ slips # {} /\ UNCHANGED vars
Spec == Init /\ [][Next]_vars

-----------------------------------------------------------------------------
(* searchKnn, of the labels that are allowed, and its reversal.            *)

Closer(p, q) == p[1] < q[1] \/ (p[1] = q[1] /\ p[2] <= q[2])
Farthest(S) == CHOOSE p \in S : \A q \in S : Closer(q, p)
Slot(i) == <<data_[i].vector, data_[i].label>>
Infinite == 1000

(* Bug: the result is cut before the slot is added.                        *)
OneMoreEarly(top, i, k, allowed) ==
  (IF Cardinality(top) >= k THEN top \ {Farthest(top)} ELSE top)
    \cup (IF Slot(i)[2] \in allowed THEN {Slot(i)} ELSE {})

(* A slot no farther than the last result comes in, and the farthest goes. *)
OneMore(top, i, k, allowed) ==
  LET all == IF Slot(i)[2] \in allowed THEN top \cup {Slot(i)} ELSE top
  IN  IF Cardinality(all) > k THEN all \ {Farthest(all)} ELSE all

searchKnn(k, allowed) ==
  LET scan[i \in k .. cur_element_count] ==
        IF i = k
        THEN LET top == {Slot(j) : j \in {j \in 1 .. k : data_[j].label \in allowed}}
             IN  [top |-> top, last |-> IF top = {} THEN Infinite ELSE Farthest(top)[1]]
        ELSE LET top == OneMore(scan[i - 1].top, i, k, allowed)
             IN  IF Slot(i)[1] > scan[i - 1].last THEN scan[i - 1]
                 ELSE [top |-> top, last |-> IF top = {} THEN scan[i - 1].last ELSE Farthest(top)[1]]
  IN  scan[cur_element_count].top

(* The heap is emptied into the result from its end.                       *)
searchKnnCloserFirst(k, allowed) ==
  LET ret == searchKnn(k, allowed)
      sz == Cardinality(ret)
      left[n \in 0 .. sz] == IF n = 0 THEN ret ELSE left[n - 1] \ {Farthest(left[n - 1])}
  IN  [i \in 1 .. sz |-> Farthest(left[sz - i])]

-----------------------------------------------------------------------------
(* Properties.                                                             *)

(* The array, the dictionary and the calls under way are in range.         *)
TypeOK ==
  LET points == [label : Label, vector : Vector] \cup {Unwritten}
  IN  slips = {} =>
      /\ data_ \in [1 .. maxelements_ -> points]
      /\ cur_element_count \in 0 .. maxelements_
      /\ DOMAIN dict \subseteq Label /\ \A l \in DOMAIN dict : dict[l] \in 1 .. cur_element_count
      /\ \A t \in Threads : adding[t] = Idle \/
           (adding[t].slot \in 1 .. cur_element_count /\ adding[t].point \in points)

(* Between calls the dictionary and the array name each other: every slot  *)
(* in use is the slot of its label, and every label has its slot.          *)
DictExact ==
  slips = {} /\ Quiet /\ loads = 0 =>
    /\ \A i \in 1 .. cur_element_count : data_[i].label \in DOMAIN dict /\ dict[data_[i].label] = i
    /\ \A l \in DOMAIN dict : dict[l] \in 1 .. cur_element_count /\ data_[dict[l]].label = l

Nearer(S, p) == {q \in S : q # p /\ Closer(q, p)}

(* Of the elements that were added and not removed since, a search returns *)
(* as many as asked for, and the i-th is the i-th nearest.  With a filter  *)
(* this holds when all elements are asked for.                             *)
FindsStored ==
  \A k \in 1 .. cur_element_count, allowed \in SUBSET Label :
    LET live == {<<stored[l], l>> : l \in DOMAIN stored \cap allowed}
        found == searchKnnCloserFirst(k, allowed)
        n == IF Cardinality(live) < k THEN Cardinality(live) ELSE k
    IN  allowed = Label \/ k = cur_element_count =>
          /\ DOMAIN found = 1 .. n
          /\ \A i \in 1 .. n : found[i] \in live /\ Cardinality(Nearer(live, found[i])) = i - 1

(* As long as the index is used in the ways the class stands, no label of  *)
(* a loaded index is removed, and every removal reads from the erased node *)
(* what was in it, a search finds what the calls have put in.              *)
KnnNearest == slips = {} /\ Quiet => FindsStored

=============================================================================
