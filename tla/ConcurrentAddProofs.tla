------------------------- MODULE ConcurrentAddProofs -------------------------
(***************************************************************************)
(* Proofs, for every number of threads, labels and vectors, of the         *)
(* invariants of ConcurrentAdd.  They hold in the middle of a batch and    *)
(* between batches, so the inductive invariant says, place by place, what  *)
(* a thread inside addPoint may still rely on although it holds no lock of *)
(* the slot it writes.                                                     *)
(***************************************************************************)
EXTENDS ConcurrentAdd, FiniteSetTheorems, TLAPS

Place ==
  {"exited", "fetch", "refused", "lock", "pop", "relabel", "table", "unmark",
   "count", "unlist", "lookup", "found", "init", "write", "link", "throw"}

(* A thread without a row, one that works on a slot, one whose slot is on  *)
(* its way from the free list to a new label, and one whose row shows in   *)
(* the table before it is complete.                                        *)
Idle(t)     == pc[t] \in {"exited", "fetch"}
Using(t)    == pc[t] \in Writing \union {"found"}
Taken(t)    == pc[t] \in {"relabel", "table", "unmark"}
Updating(t) == pc[t] \in {"unmark", "count", "unlist", "init", "write", "link"}

Shown == {[present |-> FALSE]} \union
         [present : {TRUE}, data : Vector, deleted : BOOLEAN]

Types ==
  /\ level0 \in Seq(Entry)
  /\ label_lookup_ \in [Label -> 0..Len(level0)]
  /\ deleted_elements \subseteq 1..Len(level0)
  /\ max_elements_ \in Nat
  /\ Len(level0) <= max_elements_
  /\ allow_replace_deleted_ \in BOOLEAN
  /\ careful \in BOOLEAN
  /\ requested \subseteq Label

ThreadTypes ==
  /\ pc \in [Thread -> Place]
  /\ label \in [Thread -> Label \union {NoLabel}]
  /\ vector \in [Thread -> Vector \union {NoLabel}]
  /\ slot \in [Thread -> 0..Len(level0)]
  /\ old \in [Thread -> Label \union {NoLabel}]

(* Where a thread can be in which batch, and what it has there.            *)
Places ==
  \A t \in Thread :
    /\ ~Idle(t) => label[t] \in Label /\ vector[t] \in Vector
    /\ Using(t) => slot[t] # 0
    /\ pc[t] = "table" => old[t] \in Label
    /\ pc[t] \in {"pop", "relabel", "table", "unlist"} => allow_replace_deleted_
    /\ pc[t] \in {"pop", "relabel", "table"} => batch = "replace"
    /\ pc[t] = "lock" /\ batch = "replace" => allow_replace_deleted_
    /\ pc[t] # "exited" => batch # "none"

(* The label locks keep threads with the same label apart.                 *)
LabelsLocked ==
  \A t, u \in Thread :
    t # u /\ InAddPoint(t) /\ InAddPoint(u) =>
      LabelOpMutex(label[t]) # LabelOpMutex(label[u])

(* Every slot has one thread at most, ...                                  *)
OneUser == \A t, u \in Thread : t # u /\ Using(t) /\ Using(u) => slot[t] # slot[u]

(* ... which finds in it what it left there, ...                           *)
SlotOf(t) ==
  /\ Using(t) /\ pc[t] \notin {"relabel", "init"} => level0[slot[t]].label = label[t]
  /\ pc[t] = "init" => level0[slot[t]] = Blank
  /\ Taken(t) => level0[slot[t]].deleted
  /\ pc[t] \in {"count", "unlist", "write", "link"} => ~level0[slot[t]].deleted
  /\ pc[t] = "found" /\ allow_replace_deleted_ => ~level0[slot[t]].deleted

SlotsKept == \A t \in Thread : SlotOf(t)

(* ... and the lookup table leads to a slot of another label only while a  *)
(* thread is between the two writes.                                       *)
Between(t, l, s) ==
  /\ slot[t] = s
  /\ \/ pc[t] = "table" /\ old[t] = l
     \/ pc[t] = "init" /\ label[t] = l

LookupsKept ==
  \A l \in Label :
    label_lookup_[l] # 0 =>
      \/ level0[label_lookup_[l]].label = l
      \/ \E t \in Thread : Between(t, l, label_lookup_[l])

Kept ==
  /\ Types
  /\ ThreadTypes
  /\ Places
  /\ LabelsLocked
  /\ OneUser
  /\ SlotsKept
  /\ LookupsKept
  /\ FreeListAccounted

-----------------------------------------------------------------------------
(* How a write and an append change the base layer.                        *)

Marked(layer) == Table!Marked(layer)

LEMMA MarkedFacts ==
  ASSUME NEW layer \in Seq(Entry)
  PROVE  /\ Marked(layer) = {s \in 1..Len(layer) : layer[s].deleted}
         /\ IsFiniteSet(Marked(layer))
         /\ Cardinality(Marked(layer)) \in 0..Len(layer)
<1>1. Marked(layer) = {s \in 1..Len(layer) : layer[s].deleted}
  BY DEF Marked, Table!Marked, Table!Slots
<1>2. Len(layer) \in Nat
  OBVIOUS
<1>3. IsFiniteSet(1..Len(layer)) /\ Cardinality(1..Len(layer)) = Len(layer)
  BY <1>2, FS_Interval
<1>4. Marked(layer) \in SUBSET (1..Len(layer))
  BY <1>1
<1>5. IsFiniteSet(Marked(layer)) /\ Cardinality(Marked(layer)) <= Len(layer)
  BY <1>3, <1>4, FS_Subset
<1>6. Cardinality(Marked(layer)) \in Nat
  BY <1>5, FS_CardinalityType
<1> QED
  BY <1>1, <1>2, <1>5, <1>6

LEMMA EntryFacts ==
  ASSUME BatchAssumption, NEW e \in Entry
  PROVE  /\ e.label \in Label \union {NoLabel}
         /\ e.deleted \in BOOLEAN
         /\ e.deleted => e.label \in Label
         /\ e.label \in Label => e.data \in Vector
         /\ e # Blank => e.label \in Label
         /\ NoLabel \notin Label
<1>1. NoLabel \notin Label
  BY DEF NoLabel, BatchAssumption
<1>2. CASE e = Blank
  BY <1>1, <1>2 DEF Blank
<1>3. CASE e \in [label : Label, data : Vector, deleted : BOOLEAN]
  BY <1>1, <1>3
<1> QED
  BY <1>2, <1>3 DEF Entry

(* What is written: slot s of the base layer becomes entry.                *)
Writes(s, entry) ==
  /\ level0' \in Seq(Entry)
  /\ Len(level0') = Len(level0)
  /\ level0'[s] = entry
  /\ \A r \in 1..Len(level0) : r # s => level0'[r] = level0[r]
  /\ Marked(level0') = IF entry.deleted THEN Marked(level0) \union {s}
                                        ELSE Marked(level0) \ {s}

LEMMA WriteFacts ==
  ASSUME level0 \in Seq(Entry), NEW s \in 1..Len(level0), NEW entry \in Entry,
         level0' = [level0 EXCEPT ![s] = entry]
  PROVE  Writes(s, entry)
<1>1. level0' \in Seq(Entry) /\ Len(level0') = Len(level0)
  OBVIOUS
<1>2. \A r \in 1..Len(level0) : level0'[r] = IF r = s THEN entry ELSE level0[r]
  OBVIOUS
<1>3. /\ Marked(level0) = {r \in 1..Len(level0) : level0[r].deleted}
      /\ Marked(level0') = {r \in 1..Len(level0) : level0'[r].deleted}
  BY <1>1, MarkedFacts
<1>4. \A r \in 1..Len(level0) :
        r \in Marked(level0') <=> IF r = s THEN entry.deleted ELSE r \in Marked(level0)
  BY <1>2, <1>3
<1>5. Marked(level0) \subseteq 1..Len(level0) /\ Marked(level0') \subseteq 1..Len(level0)
  BY <1>3
<1> QED
  BY <1>1, <1>2, <1>4, <1>5 DEF Writes

LEMMA AppendFacts ==
  ASSUME level0 \in Seq(Entry), level0' = Append(level0, Blank)
  PROVE  /\ level0' \in Seq(Entry)
         /\ Len(level0') = Len(level0) + 1
         /\ level0'[Len(level0) + 1] = Blank
         /\ \A r \in 1..Len(level0) : level0'[r] = level0[r]
         /\ Marked(level0') = Marked(level0)
<1>1. Blank \in Entry /\ ~Blank.deleted
  BY DEF Entry, Blank
<1>2. /\ level0' \in Seq(Entry)
      /\ Len(level0') = Len(level0) + 1
      /\ level0'[Len(level0) + 1] = Blank
      /\ \A r \in 1..Len(level0) : level0'[r] = level0[r]
  BY <1>1
<1>3. /\ Marked(level0) = {r \in 1..Len(level0) : level0[r].deleted}
      /\ Marked(level0') = {r \in 1..(Len(level0) + 1) : level0'[r].deleted}
  BY <1>2, MarkedFacts
<1>4. 1..(Len(level0) + 1) = 1..Len(level0) \union {Len(level0) + 1}
  OBVIOUS
<1> QED
  BY <1>1, <1>2, <1>3, <1>4

-----------------------------------------------------------------------------
(* What each action writes to the base layer.                              *)

LEMMA UsedSlot ==
  ASSUME Kept, NEW t \in Thread, Using(t)
  PROVE  slot[t] \in 1..Len(level0)
<1>1. slot[t] \in 0..Len(level0) /\ slot[t] # 0 /\ Len(level0) \in Nat
  BY DEF Kept, Types, ThreadTypes, Places
<1> QED
  BY <1>1

LEMMA RelabelWrites ==
  ASSUME BatchAssumption, Kept, NEW t \in Thread, Relabel(t)
  PROVE  /\ slot[t] \in 1..Len(level0)
         /\ level0[slot[t]].label \in Label
         /\ level0[slot[t]].deleted
         /\ Writes(slot[t], [label |-> label[t], data |-> level0[slot[t]].data,
                             deleted |-> TRUE])
<1>1. slot[t] \in 1..Len(level0)
  BY UsedSlot DEF Relabel, Using, Writing
<1>2. level0 \in Seq(Entry) /\ level0[slot[t]] \in Entry
  BY <1>1 DEF Kept, Types
<1>3. level0[slot[t]].deleted = TRUE
  BY <1>2, EntryFacts DEF Kept, SlotsKept, SlotOf, Relabel, Taken
<1>4. level0[slot[t]].label \in Label /\ level0[slot[t]].data \in Vector
  BY <1>2, <1>3, EntryFacts
<1>5. label[t] \in Label
  BY DEF Kept, Places, Relabel, Idle
<1> DEFINE entry == [label |-> label[t], data |-> level0[slot[t]].data, deleted |-> TRUE]
<1>6. entry \in Entry
  BY <1>4, <1>5 DEF Entry
<1>7. level0' = [level0 EXCEPT ![slot[t]] = entry]
  BY <1>1, <1>2, <1>3 DEF Relabel
<1> HIDE DEF entry
<1>8. Writes(slot[t], entry)
  BY <1>1, <1>2, <1>6, <1>7, WriteFacts
<1> QED
  BY <1>1, <1>3, <1>4, <1>8 DEF entry

LEMMA ClearMarkWrites ==
  ASSUME BatchAssumption, Kept, NEW t \in Thread, ClearMark(t)
  PROVE  /\ slot[t] \in 1..Len(level0)
         /\ level0[slot[t]].deleted
         /\ level0[slot[t]].label = label[t]
         /\ Writes(slot[t], [label |-> label[t], data |-> level0[slot[t]].data,
                             deleted |-> FALSE])
         /\ UNCHANGED num_deleted_
         /\ Goto(t, "count")
<1>1. slot[t] \in 1..Len(level0)
  BY UsedSlot DEF ClearMark, Using, Writing
<1>2. level0 \in Seq(Entry) /\ level0[slot[t]] \in Entry
  BY <1>1 DEF Kept, Types
<1>3. level0[slot[t]].deleted /\ level0[slot[t]].label = label[t]
  BY <1>2 DEF Kept, SlotsKept, SlotOf, ClearMark, Taken, Using, Writing
<1>4. label[t] \in Label
  BY DEF Kept, Places, ClearMark, Idle
<1>5. level0[slot[t]].data \in Vector
  BY <1>2, <1>3, <1>4, EntryFacts
<1> DEFINE entry == [label |-> label[t], data |-> level0[slot[t]].data, deleted |-> FALSE]
<1>6. entry \in Entry
  BY <1>4, <1>5 DEF Entry
<1>7. level0' = [level0 EXCEPT ![slot[t]] = entry]
  BY <1>1, <1>2, <1>3 DEF ClearMark, Table!WithMark
<1> HIDE DEF entry
<1>8. Writes(slot[t], entry)
  BY <1>1, <1>2, <1>6, <1>7, WriteFacts
<1> QED
  BY <1>1, <1>3, <1>8 DEF entry, ClearMark

LEMMA InitSlotWrites ==
  ASSUME BatchAssumption, Kept, NEW t \in Thread, InitSlot(t)
  PROVE  /\ slot[t] \in 1..Len(level0)
         /\ level0[slot[t]] = Blank
         /\ Writes(slot[t], [label |-> label[t], data |-> vector[t], deleted |-> FALSE])
<1>1. slot[t] \in 1..Len(level0)
  BY UsedSlot DEF InitSlot, Using, Writing
<1>2. level0 \in Seq(Entry)
  BY <1>1 DEF Kept, Types
<1>3. level0[slot[t]] = Blank
  BY <1>2 DEF Kept, SlotsKept, SlotOf, InitSlot
<1> DEFINE entry == [label |-> label[t], data |-> vector[t], deleted |-> FALSE]
<1>4. entry \in Entry
  BY DEF Entry, Kept, Places, InitSlot, Idle
<1>5. level0' = [level0 EXCEPT ![slot[t]] = entry]
  BY DEF InitSlot, Table!LiveEntry
<1> HIDE DEF entry
<1>6. Writes(slot[t], entry)
  BY <1>1, <1>2, <1>4, <1>5, WriteFacts
<1> QED
  BY <1>1, <1>3, <1>6 DEF entry

LEMMA WriteDataWrites ==
  ASSUME BatchAssumption, Kept, NEW t \in Thread, WriteData(t)
  PROVE  /\ slot[t] \in 1..Len(level0)
         /\ level0[slot[t]].label = label[t]
         /\ ~level0[slot[t]].deleted
         /\ Writes(slot[t], [label |-> label[t], data |-> vector[t], deleted |-> FALSE])
<1>1. slot[t] \in 1..Len(level0)
  BY UsedSlot DEF WriteData, Using, Writing
<1>2. level0 \in Seq(Entry) /\ level0[slot[t]] \in Entry
  BY <1>1 DEF Kept, Types
<1>3. level0[slot[t]].deleted = FALSE /\ level0[slot[t]].label = label[t]
  BY <1>2, EntryFacts DEF Kept, SlotsKept, SlotOf, WriteData, Taken, Using, Writing
<1> DEFINE entry == [label |-> label[t], data |-> vector[t], deleted |-> FALSE]
<1>4. entry \in Entry
  BY DEF Entry, Kept, Places, WriteData, Idle
<1>5. level0' = [level0 EXCEPT ![slot[t]] = entry]
  BY <1>1, <1>2, <1>3 DEF WriteData
<1> HIDE DEF entry
<1>6. Writes(slot[t], entry)
  BY <1>1, <1>2, <1>4, <1>5, WriteFacts
<1> QED
  BY <1>1, <1>3, <1>6 DEF entry

(* Between batches no thread works on a slot: the table is as LabelTable   *)
(* has it.                                                                 *)
LEMMA BetweenBatches ==
  ASSUME BatchAssumption, Kept, batch = "none", NEW l \in Label, label_lookup_[l] # 0
  PROVE  /\ \A t \in Thread : pc[t] = "exited"
         /\ label_lookup_[l] \in 1..Len(level0)
         /\ level0[label_lookup_[l]].label = l
         /\ level0[label_lookup_[l]].data \in Vector
<1>1. \A t \in Thread : pc[t] = "exited"
  BY DEF Kept, Places
<1>2. label_lookup_[l] \in 1..Len(level0)
  <2>1. label_lookup_[l] \in 0..Len(level0) /\ Len(level0) \in Nat
    BY DEF Kept, Types
  <2> QED
    BY <2>1
<1>3. level0[label_lookup_[l]].label = l
  BY <1>1 DEF Kept, LookupsKept, Between
<1>4. level0[label_lookup_[l]] \in Entry
  BY <1>2 DEF Kept, Types
<1> QED
  BY <1>1, <1>2, <1>3, <1>4, EntryFacts

LEMMA MarkWrites ==
  ASSUME BatchAssumption, Kept, NEW l \in Label, NEW m \in BOOLEAN,
         batch = "none", label_lookup_[l] # 0,
         level0' = [level0 EXCEPT ![label_lookup_[l]] =
                      Table!WithMark(level0[label_lookup_[l]], m)]
  PROVE  Writes(label_lookup_[l],
                [label |-> l, data |-> level0[label_lookup_[l]].data, deleted |-> m])
<1> DEFINE s == label_lookup_[l]
           entry == [label |-> l, data |-> level0[s].data, deleted |-> m]
<1>1. level0 \in Seq(Entry)
  BY DEF Kept, Types
<1>2. s \in 1..Len(level0) /\ level0[s].label = l /\ level0[s].data \in Vector
  BY BetweenBatches
<1>3. entry \in Entry
  BY <1>2 DEF Entry
<1>4. level0' = [level0 EXCEPT ![s] = entry]
  BY <1>2 DEF Table!WithMark
<1> HIDE DEF s, entry
<1>5. Writes(s, entry)
  BY <1>1, <1>2, <1>3, <1>4, WriteFacts
<1> QED
  BY <1>5 DEF s, entry

-----------------------------------------------------------------------------
(* The inductive invariant: it holds at first, ...                         *)
LEMMA InitKept ==
  ASSUME BatchAssumption, Init
  PROVE  Kept
<1>1. Marked(<<>>) = {} /\ Len(<<>>) = 0
  BY DEF Marked, Table!Marked, Table!Slots
<1>2. Types
  BY <1>1 DEF Init, Table!Init, Types, BatchAssumption
<1>3. ThreadTypes
  BY DEF Init, Table!Init, ThreadTypes, Place
<1>4. Places /\ LabelsLocked /\ OneUser /\ SlotsKept
  BY DEF Init, Places, LabelsLocked, OneUser, SlotsKept, SlotOf, Idle, Using, Taken,
         Writing, InAddPoint
<1>5. LookupsKept
  BY DEF Init, Table!Init, LookupsKept
<1>6. FreeListAccounted
  <2>1. Cardinality({}) = 0
    BY FS_EmptySet
  <2>2. level0 = <<>> /\ num_deleted_ = 0 /\ deleted_elements = {}
    BY DEF Init, Table!Init
  <2>3. Table!Marked(level0) = {}
    BY <1>1, <2>2 DEF Marked
  <2> QED
    <3>1. {slot[t] : t \in {u \in Thread : pc[u] = "count"}} = {}
      BY DEF Init
    <3> QED
      BY <2>1, <2>2, <2>3, <3>1 DEF FreeListAccounted
<1> QED
  BY <1>2, <1>3, <1>4, <1>5, <1>6 DEF Kept

(* ... and every action keeps the types, which for the table only needs    *)
(* how long the base layer has become.                                     *)
LEMMA TypesKept ==
  ASSUME BatchAssumption, Kept, [Next]_vars
  PROVE  Types' /\ ThreadTypes'
<1> USE DEF config, tables, batches, rows
<1>0. Types /\ ThreadTypes /\ Len(level0) \in Nat
  BY DEF Kept, Types
<1>1. CASE UNCHANGED vars
  BY <1>0, <1>1 DEF vars, Types, ThreadTypes
<1>2. ASSUME NEW l \in Label, Mark(l) PROVE Types' /\ ThreadTypes'
  <2>1. batch = "none" /\ label_lookup_[l] # 0
    BY <1>2 DEF Mark
  <2>2. label_lookup_[l] \in 1..Len(level0)
    BY <2>1, BetweenBatches
  <2>3. level0' \in Seq(Entry) /\ Len(level0') = Len(level0)
    BY <1>2, <2>1, MarkWrites DEF Mark, Table!MarkDeletedInternal, Writes
  <2>4. deleted_elements' \subseteq 1..Len(level0)
    BY <1>0, <1>2, <2>2 DEF Types, Mark, Table!MarkDeletedInternal
  <2> QED
    BY <1>0, <1>2, <2>3, <2>4 DEF Types, ThreadTypes, Mark
<1>3. ASSUME NEW l \in Label, Unmark(l) PROVE Types' /\ ThreadTypes'
  <2>1. batch = "none" /\ label_lookup_[l] # 0
    BY <1>3 DEF Unmark
  <2>2. level0' \in Seq(Entry) /\ Len(level0') = Len(level0)
    BY <1>3, <2>1, MarkWrites DEF Unmark, Table!UnmarkDeletedInternal, Writes
  <2>3. deleted_elements' \subseteq 1..Len(level0)
    BY <1>0, <1>3 DEF Types, Unmark, Table!UnmarkDeletedInternal
  <2> QED
    BY <1>0, <1>3, <2>2, <2>3 DEF Types, ThreadTypes, Unmark
<1>4. ASSUME NEW kind \in {"plain", "replace"}, StartBatch(kind)
      PROVE  Types' /\ ThreadTypes'
  BY <1>0, <1>4 DEF Types, ThreadTypes, StartBatch, Place
<1>5. CASE EndBatch
  BY <1>0, <1>5 DEF Types, ThreadTypes, EndBatch
<1>6. ASSUME NEW t \in Thread, Fetch(t) PROVE Types' /\ ThreadTypes'
  BY <1>0, <1>6 DEF Types, ThreadTypes, Fetch, Goto, Place
<1>7. ASSUME NEW t \in Thread, Exit(t) PROVE Types' /\ ThreadTypes'
  BY <1>0, <1>7 DEF Types, ThreadTypes, Exit, Goto, Place
<1>8. ASSUME NEW t \in Thread, Throw(t) PROVE Types' /\ ThreadTypes'
  BY <1>0, <1>8 DEF Types, ThreadTypes, Throw, Leave, Goto, Place
<1>9. ASSUME NEW t \in Thread, LockLabel(t) PROVE Types' /\ ThreadTypes'
  BY <1>0, <1>9 DEF Types, ThreadTypes, LockLabel, Goto, Place
<1>10. ASSUME NEW t \in Thread, Pop(t) PROVE Types' /\ ThreadTypes'
  <2>1. deleted_elements' \subseteq deleted_elements
    BY <1>10 DEF Pop
  <2>2. slot' = slot \/ \E s \in deleted_elements : slot' = [slot EXCEPT ![t] = s]
    BY <1>10 DEF Pop
  <2>3. pc' = [pc EXCEPT ![t] = "lookup"] \/ pc' = [pc EXCEPT ![t] = "relabel"]
    BY <1>10 DEF Pop, Goto
  <2>4. Types'
    BY <1>0, <1>10, <2>1 DEF Types, Pop
  <2>5. slot' \in [Thread -> 0..Len(level0)]
    <3>1. deleted_elements \subseteq 0..Len(level0)
      BY <1>0 DEF Types
    <3> QED
      BY <1>0, <2>2, <3>1 DEF ThreadTypes
  <2>6. pc' \in [Thread -> Place]
    BY <1>0, <2>3 DEF ThreadTypes, Place
  <2>7. ThreadTypes'
    BY <1>0, <1>10, <2>5, <2>6 DEF ThreadTypes, Pop
  <2> QED
    BY <2>4, <2>7
<1>11. ASSUME NEW t \in Thread, Relabel(t) PROVE Types' /\ ThreadTypes'
  <2>1. level0' \in Seq(Entry) /\ Len(level0') = Len(level0)
    BY <1>11, RelabelWrites DEF Writes
  <2>2. level0[slot[t]].label \in Label
    BY <1>11, RelabelWrites
  <2> QED
    BY <1>0, <1>11, <2>1, <2>2 DEF Types, ThreadTypes, Relabel, Goto, Place
<1>12. ASSUME NEW t \in Thread, SetLookup(t) PROVE Types' /\ ThreadTypes'
  <2>1. slot[t] \in 0..Len(level0) /\ 0 \in 0..Len(level0)
    BY <1>0 DEF ThreadTypes
  <2>2. label_lookup_' \in [Label -> 0..Len(level0)]
    BY <1>0, <1>12, <2>1 DEF Types, SetLookup
  <2>3. Types'
    BY <1>0, <1>12, <2>2 DEF Types, SetLookup
  <2>4. ThreadTypes'
    BY <1>0, <1>12 DEF ThreadTypes, SetLookup, Goto, Place
  <2> QED
    BY <2>3, <2>4
<1>13. ASSUME NEW t \in Thread, ClearMark(t) PROVE Types' /\ ThreadTypes'
  <2>1. /\ level0' \in Seq(Entry) /\ Len(level0') = Len(level0)
        /\ Goto(t, "count")
    BY <1>13, ClearMarkWrites DEF Writes
  <2>2. ThreadTypes'
    BY <1>0, <1>13, <2>1 DEF ThreadTypes, ClearMark, Goto, Place
  <2>3. Types'
    BY <1>0, <1>13, <2>1 DEF Types, ClearMark
  <2> QED
    BY <2>2, <2>3
<1>21. ASSUME NEW t \in Thread, CountDown(t) PROVE Types' /\ ThreadTypes'
  BY <1>0, <1>21 DEF Types, ThreadTypes, CountDown, Goto, Place
<1>14. ASSUME NEW t \in Thread, Unlist(t) PROVE Types' /\ ThreadTypes'
  BY <1>0, <1>14 DEF Types, ThreadTypes, Unlist, Goto, Place
<1>15. ASSUME NEW t \in Thread, Lookup(t) PROVE Types' /\ ThreadTypes'
  <2> DEFINE s == label_lookup_[label[t]]
  <2>1. label[t] \in Label
    BY <1>15 DEF Kept, Places, Lookup, Idle
  <2>2. s \in 0..Len(level0)
    BY <1>0, <2>1 DEF Types
  <2>3. CASE s # 0 \/ Len(level0) >= max_elements_
    <3>1. UNCHANGED <<tables, config, batches, label, vector, old>>
      BY <1>15, <2>3 DEF Lookup
    <3>2. slot' = slot \/ slot' = [slot EXCEPT ![t] = s]
      BY <1>15, <2>3 DEF Lookup
    <3>3. Goto(t, "throw") \/ Goto(t, "found")
      BY <1>15, <2>3 DEF Lookup
    <3> QED
      BY <1>0, <2>2, <3>1, <3>2, <3>3 DEF Types, ThreadTypes, Goto, Place
  <2>4. CASE s = 0 /\ ~(Len(level0) >= max_elements_)
    <3>1. level0' \in Seq(Entry) /\ Len(level0') = Len(level0) + 1
      BY <1>0, <1>15, <2>4, AppendFacts DEF Types, Lookup
    <3>2. /\ label_lookup_' = [label_lookup_ EXCEPT ![label[t]] = Len(level0) + 1]
          /\ slot' = [slot EXCEPT ![t] = Len(level0) + 1]
          /\ Goto(t, "init")
          /\ UNCHANGED <<num_deleted_, deleted_elements, config, batches, label,
                         vector, old>>
      BY <1>15, <2>4 DEF Lookup
    <3>3. Types'
      BY <1>0, <2>1, <2>4, <3>1, <3>2 DEF Types
    <3>4. ThreadTypes'
      BY <1>0, <3>1, <3>2 DEF ThreadTypes, Goto, Place
    <3> QED
      BY <3>3, <3>4
  <2> QED
    BY <2>3, <2>4
<1>16. ASSUME NEW t \in Thread, Found(t) PROVE Types' /\ ThreadTypes'
  BY <1>0, <1>16 DEF Types, ThreadTypes, Found, Goto, Place
<1>17. ASSUME NEW t \in Thread, InitSlot(t) PROVE Types' /\ ThreadTypes'
  <2>1. level0' \in Seq(Entry) /\ Len(level0') = Len(level0)
    BY <1>17, InitSlotWrites DEF Writes
  <2> QED
    BY <1>0, <1>17, <2>1 DEF Types, ThreadTypes, InitSlot, Goto, Place
<1>18. ASSUME NEW t \in Thread, WriteData(t) PROVE Types' /\ ThreadTypes'
  <2>1. level0' \in Seq(Entry) /\ Len(level0') = Len(level0)
    BY <1>18, WriteDataWrites DEF Writes
  <2> QED
    BY <1>0, <1>18, <2>1 DEF Types, ThreadTypes, WriteData, Goto, Place
<1>19. ASSUME NEW t \in Thread, Link(t) \/ LinkThrows(t) PROVE Types' /\ ThreadTypes'
  <2>1. UNCHANGED <<tables, config, batch, requested>>
    BY <1>19 DEF Link, LinkThrows
  <2>2. Leave(t, "fetch") \/ Leave(t, "exited")
    BY <1>19 DEF Link, LinkThrows
  <2>3. Types'
    BY <1>0, <2>1 DEF Types
  <2>4. ThreadTypes'
    <3>1. pc' \in [Thread -> Place]
      BY <1>0, <2>2 DEF ThreadTypes, Leave, Goto, Place
    <3>2. slot' = [slot EXCEPT ![t] = 0] /\ old' = [old EXCEPT ![t] = NoLabel]
      BY <2>2 DEF Leave
    <3>3. label' = [label EXCEPT ![t] = NoLabel] /\ vector' = [vector EXCEPT ![t] = NoLabel]
      BY <2>2 DEF Leave
    <3> QED
      BY <1>0, <2>1, <3>1, <3>2, <3>3 DEF ThreadTypes
  <2> QED
    BY <2>3, <2>4
<1> QED
  BY <1>1, <1>2, <1>3, <1>4, <1>5, <1>6, <1>7, <1>8, <1>9, <1>10, <1>11, <1>12,
     <1>13, <1>14, <1>15, <1>16, <1>17, <1>18, <1>19, <1>21 DEF Next, Step

-----------------------------------------------------------------------------
(* What each action does to the threads: t comes to a place with a row, a  *)
(* slot and an old label, and every other thread stays as it is.           *)

OthersStay(t) ==
  \A u \in Thread : u # t =>
    /\ pc'[u] = pc[u]
    /\ label'[u] = label[u]
    /\ vector'[u] = vector[u]
    /\ slot'[u] = slot[u]
    /\ old'[u] = old[u]

Has(t, place, l, v, s, o) ==
  /\ pc'[t] = place
  /\ label'[t] = l
  /\ vector'[t] = v
  /\ slot'[t] = s
  /\ old'[t] = o
  /\ OthersStay(t)

Comes(t, place) == Has(t, place, label[t], vector[t], slot[t], old[t])

LEMMA GotoFacts ==
  ASSUME ThreadTypes, NEW t \in Thread, NEW place, Goto(t, place)
  PROVE  pc'[t] = place /\ \A u \in Thread : u # t => pc'[u] = pc[u]
BY DEF ThreadTypes, Goto

LEMMA LeaveFacts ==
  ASSUME ThreadTypes, NEW t \in Thread, NEW place, Leave(t, place)
  PROVE  Has(t, place, NoLabel, NoLabel, 0, NoLabel)
<1>1. pc'[t] = place /\ \A u \in Thread : u # t => pc'[u] = pc[u]
  BY GotoFacts DEF Leave
<1>2. slot'[t] = 0 /\ \A u \in Thread : u # t => slot'[u] = slot[u]
  BY DEF ThreadTypes, Leave
<1>3. old'[t] = NoLabel /\ \A u \in Thread : u # t => old'[u] = old[u]
  BY DEF ThreadTypes, Leave
<1>4. label'[t] = NoLabel /\ \A u \in Thread : u # t => label'[u] = label[u]
  BY DEF ThreadTypes, Leave
<1>5. vector'[t] = NoLabel /\ \A u \in Thread : u # t => vector'[u] = vector[u]
  BY DEF ThreadTypes, Leave
<1> QED
  BY <1>1, <1>2, <1>3, <1>4, <1>5 DEF Has, OthersStay

LEMMA ComesFacts ==
  ASSUME ThreadTypes, NEW t \in Thread, NEW place, Goto(t, place),
         UNCHANGED <<label, vector, slot, old>>
  PROVE  Comes(t, place)
BY GotoFacts DEF Comes, Has, OthersStay

LEMMA FetchMoves ==
  ASSUME ThreadTypes, NEW t \in Thread, Fetch(t)
  PROVE  \E l \in Label, v \in Vector, place \in {"refused", "lock"} :
           /\ CallersPass(l)
           /\ requested' = requested \union {l}
           /\ place = "lock" => batch # "replace" \/ allow_replace_deleted_
           /\ Has(t, place, l, v, slot[t], old[t])
<1>1. PICK l \in Label, v \in Vector :
        /\ CallersPass(l)
        /\ label' = [label EXCEPT ![t] = l]
        /\ vector' = [vector EXCEPT ![t] = v]
        /\ requested' = requested \union {l}
  BY DEF Fetch
<1> DEFINE place == IF batch = "replace" /\ ~allow_replace_deleted_
                      THEN "refused" ELSE "lock"
<1>2. pc'[t] = place /\ \A u \in Thread : u # t => pc'[u] = pc[u]
  BY GotoFacts DEF Fetch
<1>3. label'[t] = l /\ \A u \in Thread : u # t => label'[u] = label[u]
  BY <1>1 DEF ThreadTypes
<1>4. vector'[t] = v /\ \A u \in Thread : u # t => vector'[u] = vector[u]
  BY <1>1 DEF ThreadTypes
<1>5. UNCHANGED <<slot, old>>
  BY DEF Fetch
<1>6. Has(t, place, l, v, slot[t], old[t])
  BY <1>2, <1>3, <1>4, <1>5 DEF Has, OthersStay
<1> QED
  BY <1>1, <1>6

LEMMA PopMoves ==
  ASSUME ThreadTypes, NEW t \in Thread, Pop(t)
  PROVE  \/ /\ Comes(t, "lookup")
            /\ deleted_elements = {}
            /\ UNCHANGED deleted_elements
         \/ \E s \in deleted_elements :
              /\ deleted_elements' = deleted_elements \ {s}
              /\ Has(t, "relabel", label[t], vector[t], s, old[t])
<1>1. CASE deleted_elements = {}
  BY <1>1, ComesFacts DEF Pop
<1>2. ASSUME NEW s \in deleted_elements, deleted_elements' = deleted_elements \ {s},
             slot' = [slot EXCEPT ![t] = s], Goto(t, "relabel")
      PROVE  Has(t, "relabel", label[t], vector[t], s, old[t])
  <2>1. slot'[t] = s /\ \A u \in Thread : u # t => slot'[u] = slot[u]
    BY <1>2 DEF ThreadTypes
  <2> QED
    BY <1>2, <2>1, GotoFacts DEF Pop, Has, OthersStay
<1> QED
  BY <1>1, <1>2 DEF Pop

LEMMA RelabelMoves ==
  ASSUME ThreadTypes, NEW t \in Thread, Relabel(t)
  PROVE  Has(t, "table", label[t], vector[t], slot[t], level0[slot[t]].label)
<1>1. old'[t] = level0[slot[t]].label /\ \A u \in Thread : u # t => old'[u] = old[u]
  BY DEF ThreadTypes, Relabel
<1> QED
  BY <1>1, GotoFacts DEF Relabel, Has, OthersStay

(* The four outcomes of the lookup.                                        *)
LEMMA LookupMoves ==
  ASSUME ThreadTypes, Types, NEW t \in Thread, Lookup(t), label[t] \in Label
  PROVE  LET s == label_lookup_[label[t]] IN
         \/ /\ s # 0 /\ level0[s].deleted /\ allow_replace_deleted_
            /\ Has(t, "throw", label[t], vector[t], s, old[t])
            /\ UNCHANGED <<level0, label_lookup_>>
         \/ /\ s # 0 /\ ~(level0[s].deleted /\ allow_replace_deleted_)
            /\ Has(t, "found", label[t], vector[t], s, old[t])
            /\ UNCHANGED <<level0, label_lookup_>>
         \/ /\ s = 0 /\ Comes(t, "throw")
            /\ UNCHANGED <<level0, label_lookup_>>
         \/ /\ s = 0 /\ Len(level0) < max_elements_
            /\ Has(t, "init", label[t], vector[t], Len(level0) + 1, old[t])
            /\ level0' = Append(level0, Blank)
            /\ label_lookup_'[label[t]] = Len(level0) + 1
            /\ \A l \in Label : l # label[t] => label_lookup_'[l] = label_lookup_[l]
<1> DEFINE s == label_lookup_[label[t]]
<1>0. s \in 0..Len(level0) /\ UNCHANGED <<label, vector, old>>
  BY DEF Types, Lookup, rows
<1>1. CASE s # 0 /\ level0[s].deleted /\ allow_replace_deleted_
  <2>1. Goto(t, "throw") /\ slot' = [slot EXCEPT ![t] = s]
    BY <1>1 DEF Lookup
  <2>2. slot'[t] = s /\ \A u \in Thread : u # t => slot'[u] = slot[u]
    BY <2>1 DEF ThreadTypes
  <2> QED
    BY <1>0, <1>1, <2>1, <2>2, GotoFacts DEF Has, OthersStay, Lookup
<1>2. CASE s # 0 /\ ~(level0[s].deleted /\ allow_replace_deleted_)
  <2>1. Goto(t, "found") /\ slot' = [slot EXCEPT ![t] = s]
    BY <1>2 DEF Lookup
  <2>2. slot'[t] = s /\ \A u \in Thread : u # t => slot'[u] = slot[u]
    BY <2>1 DEF ThreadTypes
  <2> QED
    BY <1>0, <1>2, <2>1, <2>2, GotoFacts DEF Has, OthersStay, Lookup
<1>3. CASE s = 0 /\ Len(level0) >= max_elements_
  <2>1. Goto(t, "throw") /\ UNCHANGED <<level0, label_lookup_, slot>>
    BY <1>3 DEF Lookup
  <2> QED
    BY <1>0, <1>3, <2>1, ComesFacts
<1>4. CASE s = 0 /\ ~(Len(level0) >= max_elements_)
  <2>1. /\ level0' = Append(level0, Blank)
        /\ label_lookup_' = [label_lookup_ EXCEPT ![label[t]] = Len(level0) + 1]
        /\ slot' = [slot EXCEPT ![t] = Len(level0) + 1]
        /\ Goto(t, "init")
    BY <1>4 DEF Lookup
  <2>2. slot'[t] = Len(level0) + 1 /\ \A u \in Thread : u # t => slot'[u] = slot[u]
    BY <2>1 DEF ThreadTypes
  <2>3. Has(t, "init", label[t], vector[t], Len(level0) + 1, old[t])
    BY <1>0, <2>1, <2>2, GotoFacts DEF Has, OthersStay
  <2>4. /\ label_lookup_'[label[t]] = Len(level0) + 1
        /\ \A l \in Label : l # label[t] => label_lookup_'[l] = label_lookup_[l]
    BY <2>1 DEF Types
  <2>5. Len(level0) < max_elements_
    BY <1>4 DEF Types
  <2> QED
    BY <1>4, <2>1, <2>3, <2>4, <2>5
<1> QED
  BY <1>1, <1>2, <1>3, <1>4

(* The steps that move one thread and nothing else of the threads.         *)
LEMMA PlainMoves ==
  ASSUME ThreadTypes, NEW t \in Thread
  PROVE  /\ Exit(t) => Comes(t, "exited")
         /\ LockLabel(t) => Comes(t, IF batch = "replace" THEN "pop" ELSE "lookup")
         /\ SetLookup(t) => Comes(t, "unmark")
         /\ CountDown(t) => Comes(t, IF allow_replace_deleted_ THEN "unlist" ELSE "write")
         /\ Unlist(t) => Comes(t, "write")
         /\ Found(t) => Comes(t, IF level0[slot[t]].deleted THEN "unmark" ELSE "write")
         /\ InitSlot(t) => Comes(t, "link")
         /\ WriteData(t) => Comes(t, "link")
         /\ Throw(t) => Has(t, "exited", NoLabel, NoLabel, 0, NoLabel)
         /\ Link(t) => Has(t, "fetch", NoLabel, NoLabel, 0, NoLabel)
         /\ LinkThrows(t) => Has(t, "exited", NoLabel, NoLabel, 0, NoLabel)
<1>1. Exit(t) => Comes(t, "exited")
  BY ComesFacts DEF Exit
<1>2. LockLabel(t) => Comes(t, IF batch = "replace" THEN "pop" ELSE "lookup")
  BY ComesFacts DEF LockLabel
<1>3. SetLookup(t) => Comes(t, "unmark")
  BY ComesFacts DEF SetLookup
<1>4. /\ CountDown(t) => Comes(t, IF allow_replace_deleted_ THEN "unlist" ELSE "write")
      /\ Unlist(t) => Comes(t, "write")
  BY ComesFacts DEF CountDown, Unlist
<1>5. Found(t) => Comes(t, IF level0[slot[t]].deleted THEN "unmark" ELSE "write")
  BY ComesFacts DEF Found
<1>6. (InitSlot(t) => Comes(t, "link")) /\ (WriteData(t) => Comes(t, "link"))
  BY ComesFacts DEF InitSlot, WriteData
<1>7. /\ Throw(t) => Has(t, "exited", NoLabel, NoLabel, 0, NoLabel)
      /\ Link(t) => Has(t, "fetch", NoLabel, NoLabel, 0, NoLabel)
      /\ LinkThrows(t) => Has(t, "exited", NoLabel, NoLabel, 0, NoLabel)
  BY LeaveFacts DEF Throw, Link, LinkThrows
<1> QED
  BY <1>1, <1>2, <1>3, <1>4, <1>5, <1>6, <1>7

LEMMA ClearMarkMoves ==
  ASSUME BatchAssumption, Kept, NEW t \in Thread, ClearMark(t)
  PROVE  Comes(t, "count")
<1>1. Goto(t, "count")
  BY ClearMarkWrites
<1> QED
  BY <1>1, ComesFacts DEF ClearMark, Kept

(* Every action keeps what a thread has at its place.                      *)
LEMMA PlacesKept ==
  ASSUME BatchAssumption, Kept, [Next]_vars
  PROVE  Places'
<1> USE DEF config, tables, batches, rows
<1>0. ThreadTypes /\ Places /\ Types /\ Types' /\ ThreadTypes'
  BY TypesKept DEF Kept
<1>1. CASE UNCHANGED vars
  BY <1>0, <1>1 DEF vars, Places, Idle, Using, Writing
<1>2. ASSUME NEW l \in Label, Mark(l) PROVE Places'
  BY <1>0, <1>2 DEF Mark, Places, Idle, Using, Writing
<1>3. ASSUME NEW l \in Label, Unmark(l) PROVE Places'
  BY <1>0, <1>3 DEF Unmark, Places, Idle, Using, Writing
<1>4. ASSUME NEW kind \in {"plain", "replace"}, StartBatch(kind) PROVE Places'
  BY <1>0, <1>4 DEF StartBatch, Places, Idle, Using, Writing
<1>5. CASE EndBatch
  BY <1>0, <1>5 DEF EndBatch, Places, Idle, Using, Writing
<1>6. ASSUME NEW t \in Thread, Fetch(t) PROVE Places'
  <2>1. PICK l \in Label, v \in Vector, place \in {"refused", "lock"} :
          /\ place = "lock" => batch # "replace" \/ allow_replace_deleted_
          /\ Has(t, place, l, v, slot[t], old[t])
    BY <1>0, <1>6, FetchMoves
  <2>2. pc[t] = "fetch" /\ UNCHANGED <<batch, allow_replace_deleted_>>
    BY <1>6 DEF Fetch
  <2> QED
    BY <1>0, <2>1, <2>2 DEF Has, OthersStay, Places, Idle, Using, Writing
<1>7. ASSUME NEW t \in Thread, Exit(t) PROVE Places'
  BY <1>0, <1>7, PlainMoves DEF Exit, Comes, Has, OthersStay, Places, Idle, Using, Writing
<1>8. ASSUME NEW t \in Thread, Throw(t) PROVE Places'
  BY <1>0, <1>8, PlainMoves DEF Throw, Comes, Has, OthersStay, Places, Idle, Using, Writing
<1>9. ASSUME NEW t \in Thread, LockLabel(t) PROVE Places'
  BY <1>0, <1>9, PlainMoves DEF LockLabel, Comes, Has, OthersStay, Places, Idle, Using, Writing
<1>10. ASSUME NEW t \in Thread, Pop(t) PROVE Places'
  <2>1. \A u \in Thread : u # t => pc'[u] = pc[u]
    BY <1>0, <1>10, PopMoves DEF Comes, Has, OthersStay
  <2>2. pc[t] = "pop" /\ UNCHANGED <<batch, allow_replace_deleted_>>
    BY <1>10 DEF Pop
  <2>3. CASE Comes(t, "lookup")
    BY <1>0, <2>2, <2>3 DEF Comes, Has, OthersStay, Places, Idle, Using, Writing
  <2>4. ASSUME NEW s \in deleted_elements, Has(t, "relabel", label[t], vector[t], s, old[t])
        PROVE  Places'
    <3>1. s # 0
      BY <1>0 DEF Types
    <3> QED
      BY <1>0, <2>2, <2>4, <3>1 DEF Has, OthersStay, Places, Idle, Using, Writing
  <2> QED
    BY <1>0, <1>10, <2>3, <2>4, PopMoves
<1>11. ASSUME NEW t \in Thread, Relabel(t) PROVE Places'
  <2>1. Has(t, "table", label[t], vector[t], slot[t], level0[slot[t]].label)
    BY <1>0, <1>11, RelabelMoves
  <2>2. pc[t] = "relabel" /\ UNCHANGED <<batch, allow_replace_deleted_>>
    BY <1>11 DEF Relabel
  <2>3. level0[slot[t]].label \in Label
    BY <1>11, RelabelWrites
  <2> QED
    BY <1>0, <2>1, <2>2, <2>3 DEF Has, OthersStay, Places, Idle, Using, Writing
<1>12. ASSUME NEW t \in Thread, SetLookup(t) PROVE Places'
  BY <1>0, <1>12, PlainMoves DEF SetLookup, Comes, Has, OthersStay, Places, Idle, Using, Writing
<1>13. ASSUME NEW t \in Thread, ClearMark(t) PROVE Places'
  BY <1>0, <1>13, ClearMarkMoves DEF ClearMark, Comes, Has, OthersStay, Places, Idle, Using, Writing
<1>21. ASSUME NEW t \in Thread, CountDown(t) PROVE Places'
  BY <1>0, <1>21, PlainMoves DEF CountDown, Comes, Has, OthersStay, Places, Idle, Using, Writing
<1>14. ASSUME NEW t \in Thread, Unlist(t) PROVE Places'
  BY <1>0, <1>14, PlainMoves DEF Unlist, Comes, Has, OthersStay, Places, Idle, Using, Writing
<1>15. ASSUME NEW t \in Thread, Lookup(t) PROVE Places'
  BY <1>0, <1>15, LookupMoves DEF Lookup, Comes, Has, OthersStay, Places, Idle, Using, Writing
<1>16. ASSUME NEW t \in Thread, Found(t) PROVE Places'
  BY <1>0, <1>16, PlainMoves DEF Found, Comes, Has, OthersStay, Places, Idle, Using, Writing
<1>17. ASSUME NEW t \in Thread, InitSlot(t) PROVE Places'
  BY <1>0, <1>17, PlainMoves DEF InitSlot, Comes, Has, OthersStay, Places, Idle, Using, Writing
<1>18. ASSUME NEW t \in Thread, WriteData(t) PROVE Places'
  BY <1>0, <1>18, PlainMoves DEF WriteData, Comes, Has, OthersStay, Places, Idle, Using, Writing
<1>19. ASSUME NEW t \in Thread, Link(t) PROVE Places'
  BY <1>0, <1>19, PlainMoves DEF Link, Comes, Has, OthersStay, Places, Idle, Using, Writing
<1>20. ASSUME NEW t \in Thread, LinkThrows(t) PROVE Places'
  BY <1>0, <1>20, PlainMoves DEF LinkThrows, Comes, Has, OthersStay, Places, Idle, Using, Writing
<1> QED
  BY <1>1, <1>2, <1>3, <1>4, <1>5, <1>6, <1>7, <1>8, <1>9, <1>10, <1>11,
     <1>12, <1>13, <1>14, <1>15, <1>16, <1>17, <1>18, <1>19, <1>20, <1>21 DEF Next, Step

(* A step of t that keeps its label, or ends outside addPoint, keeps the   *)
(* labels apart.                                                           *)
LEMMA SameLabel ==
  ASSUME LabelsLocked, NEW t \in Thread, OthersStay(t),
         \/ pc'[t] \in {"exited", "fetch", "refused", "lock"}
         \/ InAddPoint(t) /\ label'[t] = label[t]
  PROVE  LabelsLocked'
BY DEF LabelsLocked, OthersStay, InAddPoint

(* Every action keeps the labels apart: only LockLabel takes a label in.   *)
LEMMA LabelsStayLocked ==
  ASSUME BatchAssumption, Kept, [Next]_vars
  PROVE  LabelsLocked'
<1> USE DEF config, tables, batches, rows
<1>0. ThreadTypes /\ Types /\ Places /\ LabelsLocked
  BY DEF Kept
<1>1. CASE UNCHANGED vars
  BY <1>0, <1>1 DEF vars, LabelsLocked, InAddPoint
<1>2. ASSUME NEW l \in Label, Mark(l) PROVE LabelsLocked'
  BY <1>0, <1>2 DEF Mark, LabelsLocked, InAddPoint
<1>3. ASSUME NEW l \in Label, Unmark(l) PROVE LabelsLocked'
  BY <1>0, <1>3 DEF Unmark, LabelsLocked, InAddPoint
<1>4. ASSUME NEW kind \in {"plain", "replace"}, StartBatch(kind) PROVE LabelsLocked'
  BY <1>0, <1>4 DEF StartBatch, LabelsLocked, InAddPoint
<1>5. CASE EndBatch
  BY <1>0, <1>5 DEF EndBatch, LabelsLocked, InAddPoint
<1>6. ASSUME NEW t \in Thread, Fetch(t) PROVE LabelsLocked'
  BY <1>0, <1>6, SameLabel, FetchMoves DEF Fetch, Comes, Has, InAddPoint
<1>7. ASSUME NEW t \in Thread, Exit(t) PROVE LabelsLocked'
  BY <1>0, <1>7, SameLabel, PlainMoves DEF Exit, Comes, Has, InAddPoint
<1>8. ASSUME NEW t \in Thread, Throw(t) PROVE LabelsLocked'
  BY <1>0, <1>8, SameLabel, PlainMoves DEF Throw, Comes, Has, InAddPoint
<1>9. ASSUME NEW t \in Thread, LockLabel(t) PROVE LabelsLocked'
  BY <1>0, <1>9, PlainMoves DEF LockLabel, Comes, Has, OthersStay, LabelsLocked, InAddPoint
<1>10. ASSUME NEW t \in Thread, Pop(t) PROVE LabelsLocked'
  BY <1>0, <1>10, SameLabel, PopMoves DEF Pop, Comes, Has, InAddPoint
<1>11. ASSUME NEW t \in Thread, Relabel(t) PROVE LabelsLocked'
  BY <1>0, <1>11, SameLabel, RelabelMoves DEF Relabel, Comes, Has, InAddPoint
<1>12. ASSUME NEW t \in Thread, SetLookup(t) PROVE LabelsLocked'
  BY <1>0, <1>12, SameLabel, PlainMoves DEF SetLookup, Comes, Has, InAddPoint
<1>13. ASSUME NEW t \in Thread, ClearMark(t) PROVE LabelsLocked'
  BY <1>0, <1>13, SameLabel, ClearMarkMoves DEF ClearMark, Comes, Has, InAddPoint
<1>21. ASSUME NEW t \in Thread, CountDown(t) PROVE LabelsLocked'
  BY <1>0, <1>21, SameLabel, PlainMoves DEF CountDown, Comes, Has, InAddPoint
<1>14. ASSUME NEW t \in Thread, Unlist(t) PROVE LabelsLocked'
  BY <1>0, <1>14, SameLabel, PlainMoves DEF Unlist, Comes, Has, InAddPoint
<1>15. ASSUME NEW t \in Thread, Lookup(t) PROVE LabelsLocked'
  <2>1. pc[t] = "lookup" /\ label[t] \in Label
    BY <1>0, <1>15 DEF Lookup, Places, Idle
  <2>2. OthersStay(t) /\ label'[t] = label[t]
    BY <1>0, <1>15, <2>1, LookupMoves DEF Comes, Has
  <2> QED
    BY <1>0, <2>1, <2>2, SameLabel DEF InAddPoint
<1>16. ASSUME NEW t \in Thread, Found(t) PROVE LabelsLocked'
  BY <1>0, <1>16, SameLabel, PlainMoves DEF Found, Comes, Has, InAddPoint
<1>17. ASSUME NEW t \in Thread, InitSlot(t) PROVE LabelsLocked'
  BY <1>0, <1>17, SameLabel, PlainMoves DEF InitSlot, Comes, Has, InAddPoint
<1>18. ASSUME NEW t \in Thread, WriteData(t) PROVE LabelsLocked'
  BY <1>0, <1>18, SameLabel, PlainMoves DEF WriteData, Comes, Has, InAddPoint
<1>19. ASSUME NEW t \in Thread, Link(t) PROVE LabelsLocked'
  BY <1>0, <1>19, SameLabel, PlainMoves DEF Link, Comes, Has, InAddPoint
<1>20. ASSUME NEW t \in Thread, LinkThrows(t) PROVE LabelsLocked'
  BY <1>0, <1>20, SameLabel, PlainMoves DEF LinkThrows, Comes, Has, InAddPoint
<1> QED
  BY <1>1, <1>2, <1>3, <1>4, <1>5, <1>6, <1>7, <1>8, <1>9, <1>10, <1>11,
     <1>12, <1>13, <1>14, <1>15, <1>16, <1>17, <1>18, <1>19, <1>20, <1>21 DEF Next, Step

(* A slot on the free list is marked, and no thread works on it: the ones  *)
(* that work on a marked slot have taken it from the list.                 *)
LEMMA FreeSlot ==
  ASSUME BatchAssumption, Kept, allow_replace_deleted_, NEW s \in deleted_elements
  PROVE  /\ s \in 1..Len(level0)
         /\ level0[s].deleted
         /\ \A u \in Thread : Using(u) => slot[u] # s
<1>1. Marked(level0) = {r \in 1..Len(level0) : level0[r].deleted}
  BY MarkedFacts DEF Kept, Types
<1>2. s \in Marked(level0) \ {slot[t] : t \in {u \in Thread : Taken(u)}}
  BY DEF Kept, FreeListAccounted, Marked, Taken
<1>3. ~Blank.deleted
  BY DEF Blank
<1>4. ASSUME NEW u \in Thread, Using(u), slot[u] = s PROVE FALSE
  <2>1. ~Taken(u)
    BY <1>2, <1>4
  <2>2. level0[slot[u]].deleted
    BY <1>1, <1>2, <1>4
  <2> QED
    BY <1>3, <1>4, <2>1, <2>2 DEF Kept, SlotsKept, SlotOf, Using, Taken, Writing
<1> QED
  BY <1>1, <1>2, <1>4

(* The slot a lookup finds for a label whose lock t holds is not in use,   *)
(* unless it is marked and has been taken from the free list.              *)
LEMMA FoundSlot ==
  ASSUME BatchAssumption, Kept, NEW t \in Thread, pc[t] = "lookup",
         NEW s, s = label_lookup_[label[t]], s # 0,
         ~(level0[s].deleted /\ allow_replace_deleted_)
  PROVE  /\ s \in 1..Len(level0)
         /\ level0[s].label = label[t]
         /\ \A u \in Thread : Using(u) => slot[u] # s
<1>0. Places /\ Types
  BY DEF Kept
<1>1. label[t] \in Label
  BY <1>0 DEF Places, Idle
<1>2. s \in 1..Len(level0)
  <2>1. label_lookup_ \in [Label -> 0..Len(level0)]
    BY <1>0 DEF Types
  <2>2. Len(level0) \in Nat
    BY <1>0 DEF Types
  <2>3. label_lookup_[label[t]] \in 0..Len(level0)
    BY <1>1, <2>1
  <2> QED
    BY <2>2, <2>3
<1>3. level0[s] \in Entry
  BY <1>2 DEF Kept, Types
<1>4. \A u \in Thread : ~Between(u, label[t], s)
  <2> SUFFICES ASSUME NEW u \in Thread, Between(u, label[t], s) PROVE FALSE
    OBVIOUS
  <2>1. CASE pc[u] = "table" /\ slot[u] = s
    <3>1. level0[s].deleted /\ allow_replace_deleted_
      BY <2>1 DEF Kept, SlotsKept, SlotOf, Taken, Places
    <3> QED
      BY <3>1
  <2>2. CASE pc[u] = "init" /\ label[u] = label[t]
    BY <2>2 DEF Kept, LabelsLocked, InAddPoint
  <2> QED
    BY <2>1, <2>2 DEF Between
<1>5. level0[s].label = label[t]
  BY <1>1, <1>4 DEF Kept, LookupsKept
<1>6. ASSUME NEW u \in Thread, Using(u), slot[u] = s PROVE FALSE
  <2>1. u # t /\ InAddPoint(u) /\ InAddPoint(t)
    BY <1>6 DEF Using, Writing, InAddPoint
  <2>2. label[u] # label[t]
    BY <2>1 DEF Kept, LabelsLocked
  <2>3. CASE pc[u] \notin {"relabel", "init"}
    BY <1>5, <1>6, <2>2, <2>3 DEF Kept, SlotsKept, SlotOf
  <2>4. CASE pc[u] = "relabel"
    BY <1>6, <2>4 DEF Kept, SlotsKept, SlotOf, Taken, Places
  <2>5. CASE pc[u] = "init"
    <3>1. level0[s] = Blank
      BY <1>6, <2>5 DEF Kept, SlotsKept, SlotOf
    <3> QED
      BY <1>1, <1>3, <1>5, <3>1, EntryFacts DEF Blank
  <2> QED
    BY <2>3, <2>4, <2>5
<1> QED
  BY <1>2, <1>5, <1>6

(* A step of t that keeps its slot, or gives it up, keeps the slots apart. *)
LEMMA SameSlot ==
  ASSUME OneUser, NEW t \in Thread, OthersStay(t),
         \/ pc'[t] \notin Writing \union {"found"}
         \/ Using(t) /\ slot'[t] = slot[t]
  PROVE  OneUser'
BY DEF OneUser, OthersStay, Using

(* ... and so does one that takes a slot no thread works on.               *)
LEMMA NewSlot ==
  ASSUME OneUser, NEW t \in Thread, OthersStay(t),
         \A u \in Thread : Using(u) => slot[u] # slot'[t]
  PROVE  OneUser'
BY DEF OneUser, OthersStay, Using

(* Every action keeps the slots apart: a slot comes from the free list     *)
(* (Pop), from the lookup of a label that is locked, or from the end of    *)
(* the base layer (both Lookup).                                           *)
LEMMA SlotsStayApart ==
  ASSUME BatchAssumption, Kept, [Next]_vars
  PROVE  OneUser'
<1> USE DEF config, tables, batches, rows
<1>0. ThreadTypes /\ Types /\ Places /\ OneUser
  BY DEF Kept
<1>1. CASE UNCHANGED vars
  BY <1>0, <1>1 DEF vars, OneUser, Using, Writing
<1>2. ASSUME NEW l \in Label, Mark(l) PROVE OneUser'
  BY <1>0, <1>2 DEF Mark, OneUser, Using, Writing
<1>3. ASSUME NEW l \in Label, Unmark(l) PROVE OneUser'
  BY <1>0, <1>3 DEF Unmark, OneUser, Using, Writing
<1>4. ASSUME NEW kind \in {"plain", "replace"}, StartBatch(kind) PROVE OneUser'
  BY <1>0, <1>4 DEF StartBatch, OneUser, Using, Writing
<1>5. CASE EndBatch
  BY <1>0, <1>5 DEF EndBatch, OneUser, Using, Writing
<1>6. ASSUME NEW t \in Thread, Fetch(t) PROVE OneUser'
  BY <1>0, <1>6, SameSlot, FetchMoves DEF Fetch, Comes, Has, Using, Writing
<1>7. ASSUME NEW t \in Thread, Exit(t) PROVE OneUser'
  BY <1>0, <1>7, SameSlot, PlainMoves DEF Exit, Comes, Has, Using, Writing
<1>8. ASSUME NEW t \in Thread, Throw(t) PROVE OneUser'
  BY <1>0, <1>8, SameSlot, PlainMoves DEF Throw, Comes, Has, Using, Writing
<1>9. ASSUME NEW t \in Thread, LockLabel(t) PROVE OneUser'
  BY <1>0, <1>9, SameSlot, PlainMoves DEF LockLabel, Comes, Has, Using, Writing
<1>10. ASSUME NEW t \in Thread, Pop(t) PROVE OneUser'
  <2>1. CASE Comes(t, "lookup")
    BY <1>0, <2>1, SameSlot DEF Comes, Has, Writing
  <2>2. ASSUME NEW s \in deleted_elements, Has(t, "relabel", label[t], vector[t], s, old[t])
        PROVE  OneUser'
    <3>1. \A u \in Thread : Using(u) => slot[u] # s
      BY <1>0, <1>10, FreeSlot DEF Places, Pop
    <3> QED
      BY <1>0, <2>2, <3>1, NewSlot DEF Has
  <2> QED
    BY <1>0, <1>10, <2>1, <2>2, PopMoves
<1>11. ASSUME NEW t \in Thread, Relabel(t) PROVE OneUser'
  BY <1>0, <1>11, SameSlot, RelabelMoves DEF Relabel, Comes, Has, Using, Writing
<1>12. ASSUME NEW t \in Thread, SetLookup(t) PROVE OneUser'
  BY <1>0, <1>12, SameSlot, PlainMoves DEF SetLookup, Comes, Has, Using, Writing
<1>13. ASSUME NEW t \in Thread, ClearMark(t) PROVE OneUser'
  BY <1>0, <1>13, SameSlot, ClearMarkMoves DEF ClearMark, Comes, Has, Using, Writing
<1>21. ASSUME NEW t \in Thread, CountDown(t) PROVE OneUser'
  BY <1>0, <1>21, SameSlot, PlainMoves DEF CountDown, Comes, Has, Using, Writing
<1>14. ASSUME NEW t \in Thread, Unlist(t) PROVE OneUser'
  BY <1>0, <1>14, SameSlot, PlainMoves DEF Unlist, Comes, Has, Using, Writing
<1>15. ASSUME NEW t \in Thread, Lookup(t) PROVE OneUser'
  <2> DEFINE s == label_lookup_[label[t]]
  <2>1. pc[t] = "lookup" /\ label[t] \in Label
    BY <1>0, <1>15 DEF Lookup, Places, Idle
  <2>2. ASSUME NEW r, Has(t, "throw", label[t], vector[t], r, old[t]) PROVE OneUser'
    BY <1>0, <2>2, SameSlot DEF Has, Writing
  <2>3. ASSUME s # 0, ~(level0[s].deleted /\ allow_replace_deleted_),
               Has(t, "found", label[t], vector[t], s, old[t])
        PROVE  OneUser'
    <3>1. \A u \in Thread : Using(u) => slot[u] # s
      BY <2>1, <2>3, FoundSlot
    <3> QED
      BY <1>0, <2>3, <3>1, NewSlot DEF Has
  <2>4. ASSUME Has(t, "init", label[t], vector[t], Len(level0) + 1, old[t])
        PROVE  OneUser'
    <3>1. \A u \in Thread : slot[u] # Len(level0) + 1
      BY <1>0 DEF ThreadTypes, Types
    <3> QED
      BY <1>0, <2>4, <3>1, NewSlot DEF Has
  <2> QED
    BY <1>0, <1>15, <2>1, <2>2, <2>3, <2>4, LookupMoves DEF Comes
<1>16. ASSUME NEW t \in Thread, Found(t) PROVE OneUser'
  BY <1>0, <1>16, SameSlot, PlainMoves DEF Found, Comes, Has, Using, Writing
<1>17. ASSUME NEW t \in Thread, InitSlot(t) PROVE OneUser'
  BY <1>0, <1>17, SameSlot, PlainMoves DEF InitSlot, Comes, Has, Using, Writing
<1>18. ASSUME NEW t \in Thread, WriteData(t) PROVE OneUser'
  BY <1>0, <1>18, SameSlot, PlainMoves DEF WriteData, Comes, Has, Using, Writing
<1>19. ASSUME NEW t \in Thread, Link(t) PROVE OneUser'
  BY <1>0, <1>19, SameSlot, PlainMoves DEF Link, Comes, Has, Using, Writing
<1>20. ASSUME NEW t \in Thread, LinkThrows(t) PROVE OneUser'
  BY <1>0, <1>20, SameSlot, PlainMoves DEF LinkThrows, Comes, Has, Using, Writing
<1> QED
  BY <1>1, <1>2, <1>3, <1>4, <1>5, <1>6, <1>7, <1>8, <1>9, <1>10, <1>11,
     <1>12, <1>13, <1>14, <1>15, <1>16, <1>17, <1>18, <1>19, <1>20, <1>21 DEF Next, Step

(* Every thread finds its slot as it was when the step of t wrote no other *)
(* slot than its own.                                                      *)
LEMMA OthersKeepSlots ==
  ASSUME SlotsKept, NEW t \in Thread, OthersStay(t), UNCHANGED allow_replace_deleted_,
         \A u \in Thread : u # t /\ Using(u) => level0'[slot[u]] = level0[slot[u]],
         SlotOf(t)'
  PROVE  SlotsKept'
<1> SUFFICES ASSUME NEW u \in Thread, u # t PROVE SlotOf(u)'
  BY DEF SlotsKept
<1>1. SlotOf(u)
  BY DEF SlotsKept
<1>2. pc'[u] = pc[u] /\ slot'[u] = slot[u] /\ label'[u] = label[u]
  BY DEF OthersStay
<1>3. Using(u) => level0'[slot[u]] = level0[slot[u]]
  OBVIOUS
<1> QED
  BY <1>1, <1>2, <1>3 DEF SlotOf, Using, Taken, Writing

LEMMA QuietKeepsSlots ==
  ASSUME SlotsKept, NEW t \in Thread, OthersStay(t),
         UNCHANGED <<level0, allow_replace_deleted_>>, SlotOf(t)'
  PROVE  SlotsKept'
BY OthersKeepSlots

LEMMA OwnWrite ==
  ASSUME Kept, NEW t \in Thread, Using(t), NEW entry, Writes(slot[t], entry),
         OthersStay(t), UNCHANGED allow_replace_deleted_, SlotOf(t)'
  PROVE  SlotsKept'
<1>1. \A u \in Thread : u # t /\ Using(u) =>
        slot[u] \in 1..Len(level0) /\ slot[u] # slot[t]
  BY UsedSlot DEF Kept, OneUser
<1>2. \A u \in Thread : u # t /\ Using(u) => level0'[slot[u]] = level0[slot[u]]
  BY <1>1 DEF Writes
<1> QED
  BY <1>2, OthersKeepSlots DEF Kept

(* Every action leaves every thread's slot as that thread needs it.        *)
LEMMA SlotsStayKept ==
  ASSUME BatchAssumption, Kept, [Next]_vars
  PROVE  SlotsKept'
<1> USE DEF config, tables, batches, rows
<1>0. ThreadTypes /\ Types /\ Places /\ SlotsKept
  BY DEF Kept
<1>1. CASE UNCHANGED vars
  BY <1>0, <1>1 DEF vars, SlotsKept, SlotOf, Using, Taken
<1>2. ASSUME NEW l \in Label, Mark(l) PROVE SlotsKept'
  <2>1. \A t \in Thread : pc[t] = "exited"
    BY <1>0, <1>2 DEF Places, Mark
  <2> QED
    BY <1>2, <2>1 DEF Mark, SlotsKept, SlotOf, Using, Taken, Writing
<1>3. ASSUME NEW l \in Label, Unmark(l) PROVE SlotsKept'
  <2>1. \A t \in Thread : pc[t] = "exited"
    BY <1>0, <1>3 DEF Places, Unmark
  <2> QED
    BY <1>3, <2>1 DEF Unmark, SlotsKept, SlotOf, Using, Taken, Writing
<1>4. ASSUME NEW kind \in {"plain", "replace"}, StartBatch(kind) PROVE SlotsKept'
  <2>1. \A t \in Thread : pc'[t] = "fetch"
    BY <1>4 DEF StartBatch
  <2> QED
    BY <2>1 DEF SlotsKept, SlotOf, Using, Taken, Writing
<1>5. CASE EndBatch
  BY <1>0, <1>5 DEF EndBatch, SlotsKept, SlotOf, Using, Taken
<1>6. ASSUME NEW t \in Thread, Fetch(t) PROVE SlotsKept'
  <2>1. OthersStay(t) /\ ~Using(t)'
    BY <1>0, <1>6, FetchMoves DEF Comes, Has, Using, Writing
  <2>2. SlotOf(t)'
    BY <2>1 DEF SlotOf, Using, Taken, Writing
  <2> QED
    BY <1>0, <1>6, <2>1, <2>2, QuietKeepsSlots DEF Fetch
<1>7. ASSUME NEW t \in Thread, Exit(t) PROVE SlotsKept'
  <2>1. OthersStay(t) /\ ~Using(t)'
    BY <1>0, <1>7, PlainMoves DEF Comes, Has, Using, Writing
  <2>2. SlotOf(t)'
    BY <2>1 DEF SlotOf, Using, Taken, Writing
  <2> QED
    BY <1>0, <1>7, <2>1, <2>2, QuietKeepsSlots DEF Exit
<1>8. ASSUME NEW t \in Thread, Throw(t) PROVE SlotsKept'
  <2>1. OthersStay(t) /\ ~Using(t)'
    BY <1>0, <1>8, PlainMoves DEF Comes, Has, Using, Writing
  <2>2. SlotOf(t)'
    BY <2>1 DEF SlotOf, Using, Taken, Writing
  <2> QED
    BY <1>0, <1>8, <2>1, <2>2, QuietKeepsSlots DEF Throw
<1>9. ASSUME NEW t \in Thread, LockLabel(t) PROVE SlotsKept'
  <2>1. OthersStay(t) /\ ~Using(t)'
    BY <1>0, <1>9, PlainMoves DEF Comes, Has, Using, Writing
  <2>2. SlotOf(t)'
    BY <2>1 DEF SlotOf, Using, Taken, Writing
  <2> QED
    BY <1>0, <1>9, <2>1, <2>2, QuietKeepsSlots DEF LockLabel
<1>10. ASSUME NEW t \in Thread, Pop(t) PROVE SlotsKept'
  <2>0. UNCHANGED <<level0, allow_replace_deleted_>>
    BY <1>10 DEF Pop
  <2>1. CASE Comes(t, "lookup")
    BY <1>0, <2>0, <2>1, QuietKeepsSlots DEF Comes, Has, SlotOf, Using, Taken, Writing
  <2>2. ASSUME NEW s \in deleted_elements, Has(t, "relabel", label[t], vector[t], s, old[t])
        PROVE  SlotsKept'
    <3>1. level0[s].deleted
      BY <1>0, <1>10, FreeSlot DEF Places, Pop
    <3>2. SlotOf(t)'
      BY <2>0, <2>2, <3>1 DEF Has, SlotOf, Using, Taken, Writing
    <3> QED
      BY <1>0, <2>0, <2>2, <3>2, QuietKeepsSlots DEF Has
  <2> QED
    BY <1>0, <1>10, <2>1, <2>2, PopMoves
<1>11. ASSUME NEW t \in Thread, Relabel(t) PROVE SlotsKept'
  <2> DEFINE entry == [label |-> label[t], data |-> level0[slot[t]].data, deleted |-> TRUE]
  <2>1. Writes(slot[t], entry)
    BY <1>11, RelabelWrites
  <2>2. level0'[slot[t]].label = label[t] /\ level0'[slot[t]].deleted = TRUE
    BY <2>1 DEF Writes
  <2>3. /\ OthersStay(t)
        /\ slot'[t] = slot[t]
        /\ label'[t] = label[t]
        /\ pc'[t] = "table"
    BY <1>0, <1>11, RelabelMoves DEF Comes, Has
  <2>4. SlotOf(t)'
    BY <2>2, <2>3 DEF SlotOf, Using, Taken, Writing
  <2>5. Using(t)
    BY <1>11 DEF Relabel, Using, Writing
  <2> HIDE DEF entry
  <2> QED
    BY <1>11, <2>1, <2>3, <2>4, <2>5, OwnWrite DEF Relabel
<1>12. ASSUME NEW t \in Thread, SetLookup(t) PROVE SlotsKept'
  <2>1. OthersStay(t) /\ slot'[t] = slot[t] /\ label'[t] = label[t]
    BY <1>0, <1>12, PlainMoves DEF Comes, Has
  <2>2. SlotOf(t) /\ SlotOf(t)'
    BY <1>0, <1>12, <2>1, PlainMoves DEF SlotsKept, SlotOf, SetLookup, Comes, Has, Using,
       Taken, Writing
  <2> QED
    BY <1>0, <1>12, <2>1, <2>2, QuietKeepsSlots DEF SetLookup
<1>13. ASSUME NEW t \in Thread, ClearMark(t) PROVE SlotsKept'
  <2> DEFINE entry == [label |-> label[t], data |-> level0[slot[t]].data, deleted |-> FALSE]
  <2>1. Writes(slot[t], entry)
    BY <1>13, ClearMarkWrites
  <2>2. level0'[slot[t]].label = label[t] /\ level0'[slot[t]].deleted = FALSE
    BY <2>1 DEF Writes
  <2>3. /\ OthersStay(t)
        /\ slot'[t] = slot[t]
        /\ label'[t] = label[t]
        /\ pc'[t] = "count"
    BY <1>0, <1>13, ClearMarkMoves DEF Comes, Has
  <2>4. SlotOf(t)'
    BY <2>2, <2>3 DEF SlotOf, Using, Taken, Writing
  <2>5. Using(t)
    BY <1>13 DEF ClearMark, Using, Writing
  <2> HIDE DEF entry
  <2> QED
    BY <1>13, <2>1, <2>3, <2>4, <2>5, OwnWrite DEF ClearMark
<1>21. ASSUME NEW t \in Thread, CountDown(t) PROVE SlotsKept'
  <2>1. OthersStay(t) /\ slot'[t] = slot[t] /\ label'[t] = label[t]
    BY <1>0, <1>21, PlainMoves DEF Comes, Has
  <2>2. SlotOf(t) /\ SlotOf(t)'
    BY <1>0, <1>21, <2>1, PlainMoves DEF SlotsKept, SlotOf, CountDown, Comes, Has, Using,
       Taken, Writing
  <2> QED
    BY <1>0, <1>21, <2>1, <2>2, QuietKeepsSlots DEF CountDown
<1>14. ASSUME NEW t \in Thread, Unlist(t) PROVE SlotsKept'
  <2>1. OthersStay(t) /\ slot'[t] = slot[t] /\ label'[t] = label[t]
    BY <1>0, <1>14, PlainMoves DEF Comes, Has
  <2>2. SlotOf(t) /\ SlotOf(t)'
    BY <1>0, <1>14, <2>1, PlainMoves DEF SlotsKept, SlotOf, Unlist, Comes, Has, Using,
       Taken, Writing
  <2> QED
    BY <1>0, <1>14, <2>1, <2>2, QuietKeepsSlots DEF Unlist
<1>15. ASSUME NEW t \in Thread, Lookup(t) PROVE SlotsKept'
  <2> DEFINE s == label_lookup_[label[t]]
  <2>0. UNCHANGED allow_replace_deleted_
    BY <1>15 DEF Lookup
  <2>1. pc[t] = "lookup" /\ label[t] \in Label
    BY <1>0, <1>15 DEF Lookup, Places, Idle
  <2>2. ASSUME NEW r, Has(t, "throw", label[t], vector[t], r, old[t]), UNCHANGED level0
        PROVE  SlotsKept'
    BY <1>0, <2>0, <2>2, QuietKeepsSlots DEF Has, SlotOf, Using, Taken, Writing
  <2>3. ASSUME s # 0, ~(level0[s].deleted /\ allow_replace_deleted_),
               Has(t, "found", label[t], vector[t], s, old[t]), UNCHANGED level0
        PROVE  SlotsKept'
    <3>1. level0[s].label = label[t]
      BY <2>1, <2>3, FoundSlot
    <3>2. SlotOf(t)'
      BY <2>0, <2>3, <3>1 DEF Has, SlotOf, Using, Taken, Writing
    <3> QED
      BY <1>0, <2>0, <2>3, <3>2, QuietKeepsSlots DEF Has
  <2>4. ASSUME Has(t, "init", label[t], vector[t], Len(level0) + 1, old[t]),
               level0' = Append(level0, Blank)
        PROVE  SlotsKept'
    <3>1. /\ level0'[Len(level0) + 1] = Blank
          /\ \A r \in 1..Len(level0) : level0'[r] = level0[r]
      BY <1>0, <2>4, AppendFacts DEF Types
    <3>2. SlotOf(t)'
      BY <2>4, <3>1 DEF Has, SlotOf, Using, Taken, Writing
    <3>3. \A u \in Thread : u # t /\ Using(u) => level0'[slot[u]] = level0[slot[u]]
      BY <3>1, UsedSlot
    <3> QED
      BY <1>0, <2>0, <2>4, <3>2, <3>3, OthersKeepSlots DEF Has
  <2> QED
    BY <1>0, <1>15, <2>1, <2>2, <2>3, <2>4, LookupMoves DEF Comes
<1>16. ASSUME NEW t \in Thread, Found(t) PROVE SlotsKept'
  <2>1. OthersStay(t) /\ slot'[t] = slot[t] /\ label'[t] = label[t]
    BY <1>0, <1>16, PlainMoves DEF Comes, Has
  <2>2. SlotOf(t) /\ SlotOf(t)'
    BY <1>0, <1>16, <2>1, PlainMoves DEF SlotsKept, SlotOf, Found, Comes, Has, Using,
       Taken, Writing
  <2> QED
    BY <1>0, <1>16, <2>1, <2>2, QuietKeepsSlots DEF Found
<1>17. ASSUME NEW t \in Thread, InitSlot(t) PROVE SlotsKept'
  <2> DEFINE entry == [label |-> label[t], data |-> vector[t], deleted |-> FALSE]
  <2>1. Writes(slot[t], entry)
    BY <1>17, InitSlotWrites
  <2>2. level0'[slot[t]].label = label[t] /\ level0'[slot[t]].deleted = FALSE
    BY <2>1 DEF Writes
  <2>3. /\ OthersStay(t)
        /\ slot'[t] = slot[t]
        /\ label'[t] = label[t]
        /\ pc'[t] = "link"
    BY <1>0, <1>17, PlainMoves DEF Comes, Has
  <2>4. SlotOf(t)'
    BY <2>2, <2>3 DEF SlotOf, Using, Taken, Writing
  <2>5. Using(t)
    BY <1>17 DEF InitSlot, Using, Writing
  <2> HIDE DEF entry
  <2> QED
    BY <1>17, <2>1, <2>3, <2>4, <2>5, OwnWrite DEF InitSlot
<1>18. ASSUME NEW t \in Thread, WriteData(t) PROVE SlotsKept'
  <2> DEFINE entry == [label |-> label[t], data |-> vector[t], deleted |-> FALSE]
  <2>1. Writes(slot[t], entry)
    BY <1>18, WriteDataWrites
  <2>2. level0'[slot[t]].label = label[t] /\ level0'[slot[t]].deleted = FALSE
    BY <2>1 DEF Writes
  <2>3. /\ OthersStay(t)
        /\ slot'[t] = slot[t]
        /\ label'[t] = label[t]
        /\ pc'[t] = "link"
    BY <1>0, <1>18, PlainMoves DEF Comes, Has
  <2>4. SlotOf(t)'
    BY <2>2, <2>3 DEF SlotOf, Using, Taken, Writing
  <2>5. Using(t)
    BY <1>18 DEF WriteData, Using, Writing
  <2> HIDE DEF entry
  <2> QED
    BY <1>18, <2>1, <2>3, <2>4, <2>5, OwnWrite DEF WriteData
<1>19. ASSUME NEW t \in Thread, Link(t) PROVE SlotsKept'
  <2>1. OthersStay(t) /\ ~Using(t)'
    BY <1>0, <1>19, PlainMoves DEF Comes, Has, Using, Writing
  <2>2. SlotOf(t)'
    BY <2>1 DEF SlotOf, Using, Taken, Writing
  <2> QED
    BY <1>0, <1>19, <2>1, <2>2, QuietKeepsSlots DEF Link
<1>20. ASSUME NEW t \in Thread, LinkThrows(t) PROVE SlotsKept'
  <2>1. OthersStay(t) /\ ~Using(t)'
    BY <1>0, <1>20, PlainMoves DEF Comes, Has, Using, Writing
  <2>2. SlotOf(t)'
    BY <2>1 DEF SlotOf, Using, Taken, Writing
  <2> QED
    BY <1>0, <1>20, <2>1, <2>2, QuietKeepsSlots DEF LinkThrows
<1> QED
  BY <1>1, <1>2, <1>3, <1>4, <1>5, <1>6, <1>7, <1>8, <1>9, <1>10, <1>11,
     <1>12, <1>13, <1>14, <1>15, <1>16, <1>17, <1>18, <1>19, <1>20, <1>21 DEF Next, Step

(* The lookup table keeps leading where it did when the step of t writes   *)
(* neither it nor a label, and t was not between the two.                  *)
LEMMA LookupsStay ==
  ASSUME Types, LookupsKept, NEW t \in Thread, OthersStay(t),
         UNCHANGED label_lookup_, pc[t] \notin {"table", "init"},
         \A r \in 1..Len(level0) : level0'[r].label = level0[r].label
  PROVE  LookupsKept'
<1> SUFFICES ASSUME NEW l \in Label, label_lookup_[l] # 0
             PROVE  \/ level0'[label_lookup_[l]].label = l
                    \/ \E u \in Thread : Between(u, l, label_lookup_[l])'
  BY DEF LookupsKept, Between
<1>1. label_lookup_[l] \in 1..Len(level0)
  <2>1. label_lookup_[l] \in 0..Len(level0) /\ Len(level0) \in Nat
    BY DEF Types
  <2> QED
    BY <2>1
<1>2. CASE level0[label_lookup_[l]].label = l
  BY <1>1, <1>2
<1>3. ASSUME NEW u \in Thread, Between(u, l, label_lookup_[l])
      PROVE  Between(u, l, label_lookup_[l])'
  BY <1>3 DEF Between, OthersStay
<1> QED
  BY <1>2, <1>3 DEF LookupsKept

(* Every action keeps the lookup table sound, but for the threads that are *)
(* between their two writes.                                               *)
LEMMA LookupsStayKept ==
  ASSUME BatchAssumption, Kept, [Next]_vars
  PROVE  LookupsKept'
<1> USE DEF config, tables, batches, rows
<1>0. Types /\ ThreadTypes /\ Places /\ OneUser /\ SlotsKept /\ LookupsKept
  BY DEF Kept
<1>1. CASE UNCHANGED vars
  BY <1>0, <1>1 DEF vars, LookupsKept, Between
<1>2. ASSUME NEW l \in Label, Mark(l) PROVE LookupsKept'
  <2>1. \A t \in Thread : pc[t] = "exited"
    BY <1>0, <1>2 DEF Places, Mark
  <2>2. batch = "none" /\ label_lookup_[l] # 0 /\ UNCHANGED <<label_lookup_, rows>>
    BY <1>2 DEF Mark
  <2>3. level0[label_lookup_[l]].label = l
    BY <2>2, BetweenBatches
  <2>4. Writes(label_lookup_[l], [label |-> l, data |-> level0[label_lookup_[l]].data,
                                 deleted |-> TRUE])
    BY <1>2, <2>2, MarkWrites DEF Mark, Table!MarkDeletedInternal
  <2>5. \A r \in 1..Len(level0) : level0'[r].label = level0[r].label
    BY <2>3, <2>4 DEF Writes
  <2> SUFFICES ASSUME NEW k \in Label, label_lookup_[k] # 0
               PROVE  level0'[label_lookup_[k]].label = k
    BY <2>2 DEF LookupsKept
  <2>6. label_lookup_[k] \in 1..Len(level0) /\ level0[label_lookup_[k]].label = k
    BY <2>2, BetweenBatches
  <2> QED
    BY <2>5, <2>6
<1>3. ASSUME NEW l \in Label, Unmark(l) PROVE LookupsKept'
  <2>1. \A t \in Thread : pc[t] = "exited"
    BY <1>0, <1>3 DEF Places, Unmark
  <2>2. batch = "none" /\ label_lookup_[l] # 0 /\ UNCHANGED <<label_lookup_, rows>>
    BY <1>3 DEF Unmark
  <2>3. level0[label_lookup_[l]].label = l
    BY <2>2, BetweenBatches
  <2>4. Writes(label_lookup_[l], [label |-> l, data |-> level0[label_lookup_[l]].data,
                                 deleted |-> FALSE])
    BY <1>3, <2>2, MarkWrites DEF Unmark, Table!UnmarkDeletedInternal
  <2>5. \A r \in 1..Len(level0) : level0'[r].label = level0[r].label
    BY <2>3, <2>4 DEF Writes
  <2> SUFFICES ASSUME NEW k \in Label, label_lookup_[k] # 0
               PROVE  level0'[label_lookup_[k]].label = k
    BY <2>2 DEF LookupsKept
  <2>6. label_lookup_[k] \in 1..Len(level0) /\ level0[label_lookup_[k]].label = k
    BY <2>2, BetweenBatches
  <2> QED
    BY <2>5, <2>6
<1>4. ASSUME NEW kind \in {"plain", "replace"}, StartBatch(kind) PROVE LookupsKept'
  <2>1. \A t \in Thread : pc[t] = "exited"
    BY <1>0, <1>4 DEF Places, StartBatch
  <2> QED
    BY <1>0, <1>4, <2>1 DEF StartBatch, LookupsKept, Between
<1>5. CASE EndBatch
  BY <1>0, <1>5 DEF EndBatch, LookupsKept, Between
<1>6. ASSUME NEW t \in Thread, Fetch(t) PROVE LookupsKept'
  <2>1. OthersStay(t)
    BY <1>0, <1>6, FetchMoves DEF Comes, Has
  <2>2. pc[t] \notin {"table", "init"} /\ UNCHANGED <<level0, label_lookup_>>
    BY <1>6 DEF Fetch
  <2> QED
    BY <1>0, <2>1, <2>2, LookupsStay
<1>7. ASSUME NEW t \in Thread, Exit(t) PROVE LookupsKept'
  <2>1. OthersStay(t)
    BY <1>0, <1>7, PlainMoves DEF Comes, Has
  <2>2. pc[t] \notin {"table", "init"} /\ UNCHANGED <<level0, label_lookup_>>
    BY <1>7 DEF Exit
  <2> QED
    BY <1>0, <2>1, <2>2, LookupsStay
<1>8. ASSUME NEW t \in Thread, Throw(t) PROVE LookupsKept'
  <2>1. OthersStay(t)
    BY <1>0, <1>8, PlainMoves DEF Comes, Has
  <2>2. pc[t] \notin {"table", "init"} /\ UNCHANGED <<level0, label_lookup_>>
    BY <1>8 DEF Throw
  <2> QED
    BY <1>0, <2>1, <2>2, LookupsStay
<1>9. ASSUME NEW t \in Thread, LockLabel(t) PROVE LookupsKept'
  <2>1. OthersStay(t)
    BY <1>0, <1>9, PlainMoves DEF Comes, Has
  <2>2. pc[t] \notin {"table", "init"} /\ UNCHANGED <<level0, label_lookup_>>
    BY <1>9 DEF LockLabel
  <2> QED
    BY <1>0, <2>1, <2>2, LookupsStay
<1>10. ASSUME NEW t \in Thread, Pop(t) PROVE LookupsKept'
  <2>1. OthersStay(t)
    BY <1>0, <1>10, PopMoves DEF Comes, Has
  <2>2. pc[t] \notin {"table", "init"} /\ UNCHANGED <<level0, label_lookup_>>
    BY <1>10 DEF Pop
  <2> QED
    BY <1>0, <2>1, <2>2, LookupsStay
<1>11. ASSUME NEW t \in Thread, Relabel(t) PROVE LookupsKept'
  <2> SUFFICES ASSUME NEW l \in Label, label_lookup_'[l] # 0
               PROVE  \/ level0'[label_lookup_'[l]].label = l
                      \/ \E u \in Thread : Between(u, l, label_lookup_[l])'
    BY DEF LookupsKept, Between
  <2> DEFINE r == label_lookup_[l]
  <2>1. UNCHANGED label_lookup_ /\ pc[t] = "relabel"
    BY <1>11 DEF Relabel
  <2>2. Writes(slot[t], [label |-> label[t], data |-> level0[slot[t]].data, deleted |-> TRUE])
    BY <1>11, RelabelWrites
  <2>3. /\ OthersStay(t)
        /\ pc'[t] = "table"
        /\ slot'[t] = slot[t]
        /\ old'[t] = level0[slot[t]].label
    BY <1>0, <1>11, RelabelMoves DEF Has
  <2>4. r \in 1..Len(level0)
    BY <1>0, <2>1 DEF Types
  <2>5. level0[r].label = l \/ \E u \in Thread : Between(u, l, r)
    BY <1>0, <2>1 DEF LookupsKept
  <2>6. CASE r = slot[t]
    <3>1. \A u \in Thread : ~Between(u, l, r)
      BY <1>0, <2>1, <2>6 DEF Between, OneUser, Using, Writing
    <3>2. Between(t, l, label_lookup_[l])'
      BY <2>1, <2>3, <2>5, <2>6, <3>1 DEF Between
    <3> QED
      BY <3>2
  <2>7. CASE r # slot[t]
    <3>1. level0'[r] = level0[r]
      BY <2>2, <2>4, <2>7 DEF Writes
    <3>2. ASSUME NEW u \in Thread, Between(u, l, r)
          PROVE  Between(u, l, label_lookup_[l])'
      BY <2>1, <2>3, <3>2 DEF Between, OthersStay
    <3> QED
      BY <2>1, <2>5, <3>1, <3>2
  <2> QED
    BY <2>6, <2>7
<1>12. ASSUME NEW t \in Thread, SetLookup(t) PROVE LookupsKept'
  <2> SUFFICES ASSUME NEW l \in Label, label_lookup_'[l] # 0
               PROVE  \/ level0'[label_lookup_'[l]].label = l
                      \/ \E u \in Thread : Between(u, l, label_lookup_[l])'
    BY DEF LookupsKept, Between
  <2>1. /\ UNCHANGED level0
        /\ pc[t] = "table"
        /\ label_lookup_'[label[t]] = slot[t]
        /\ l # label[t] /\ l # old[t] => label_lookup_'[l] = label_lookup_[l]
        /\ l # label[t] /\ l = old[t] => label_lookup_'[l] = 0
    <3>1. label[t] \in Label /\ old[t] \in Label
      BY <1>0, <1>12 DEF Places, Idle, SetLookup
    <3> QED
      BY <1>0, <1>12, <3>1 DEF SetLookup, Types
  <2>2. OthersStay(t)
    BY <1>0, <1>12, PlainMoves DEF Comes, Has
  <2>3. CASE l = label[t]
    BY <1>0, <2>1, <2>3 DEF SlotsKept, SlotOf, Using, Writing
  <2>4. CASE l # label[t] /\ l # old[t]
    <3>1. \/ level0[label_lookup_[l]].label = l
          \/ \E u \in Thread : Between(u, l, label_lookup_[l])
      BY <1>0, <2>1, <2>4 DEF LookupsKept
    <3>2. ASSUME NEW u \in Thread, Between(u, l, label_lookup_[l])
          PROVE  Between(u, l, label_lookup_[l])'
      BY <2>1, <2>2, <2>4, <3>2 DEF Between, OthersStay
    <3> QED
      BY <2>1, <2>4, <3>1, <3>2
  <2> QED
    BY <2>1, <2>3, <2>4
<1>13. ASSUME NEW t \in Thread, ClearMark(t) PROVE LookupsKept'
  <2> DEFINE entry == [label |-> label[t], data |-> level0[slot[t]].data, deleted |-> FALSE]
  <2>1. Writes(slot[t], entry) /\ level0[slot[t]].label = label[t]
    BY <1>13, ClearMarkWrites
  <2>2. \A r \in 1..Len(level0) : level0'[r].label = level0[r].label
    BY <2>1 DEF Writes
  <2>3. OthersStay(t)
    BY <1>0, <1>13, ClearMarkMoves DEF Comes, Has
  <2>4. pc[t] \notin {"table", "init"} /\ UNCHANGED label_lookup_
    BY <1>13 DEF ClearMark
  <2> QED
    BY <1>0, <2>2, <2>3, <2>4, LookupsStay
<1>21. ASSUME NEW t \in Thread, CountDown(t) PROVE LookupsKept'
  <2>1. OthersStay(t)
    BY <1>0, <1>21, PlainMoves DEF Comes, Has
  <2>2. pc[t] \notin {"table", "init"} /\ UNCHANGED <<level0, label_lookup_>>
    BY <1>21 DEF CountDown
  <2> QED
    BY <1>0, <2>1, <2>2, LookupsStay
<1>14. ASSUME NEW t \in Thread, Unlist(t) PROVE LookupsKept'
  <2>1. OthersStay(t)
    BY <1>0, <1>14, PlainMoves DEF Comes, Has
  <2>2. pc[t] \notin {"table", "init"} /\ UNCHANGED <<level0, label_lookup_>>
    BY <1>14 DEF Unlist
  <2> QED
    BY <1>0, <2>1, <2>2, LookupsStay
<1>15. ASSUME NEW t \in Thread, Lookup(t) PROVE LookupsKept'
  <2>1. pc[t] = "lookup" /\ label[t] \in Label
    BY <1>0, <1>15 DEF Lookup, Places, Idle
  <2>2. ASSUME OthersStay(t), UNCHANGED <<level0, label_lookup_>> PROVE LookupsKept'
    BY <1>0, <2>1, <2>2, LookupsStay
  <2>3. ASSUME Has(t, "init", label[t], vector[t], Len(level0) + 1, old[t]),
               level0' = Append(level0, Blank),
               label_lookup_'[label[t]] = Len(level0) + 1,
               \A l \in Label : l # label[t] => label_lookup_'[l] = label_lookup_[l],
               NEW l \in Label, label_lookup_'[l] # 0
        PROVE  \/ level0'[label_lookup_'[l]].label = l
               \/ \E u \in Thread : Between(u, l, label_lookup_[l])'
    <3>1. \A r \in 1..Len(level0) : level0'[r] = level0[r]
      BY <1>0, <2>3, AppendFacts DEF Types
    <3>2. CASE l = label[t]
      BY <2>3, <3>2 DEF Has, Between
    <3>3. CASE l # label[t]
      <4>1. /\ label_lookup_'[l] = label_lookup_[l]
            /\ label_lookup_[l] \in 1..Len(level0)
            /\ label_lookup_[l] # 0
        BY <1>0, <2>3, <3>3 DEF Types
      <4>2. ASSUME NEW u \in Thread, Between(u, l, label_lookup_[l])
            PROVE  Between(u, l, label_lookup_[l])'
        BY <2>1, <2>3, <4>1, <4>2 DEF Between, Has, OthersStay
      <4>3. \/ level0[label_lookup_[l]].label = l
            \/ \E u \in Thread : Between(u, l, label_lookup_[l])
        BY <1>0, <4>1, Zenon DEF LookupsKept
      <4> QED
        BY <3>1, <4>1, <4>2, <4>3
    <3> QED
      BY <3>2, <3>3
  <2>4. ASSUME Has(t, "init", label[t], vector[t], Len(level0) + 1, old[t]),
               level0' = Append(level0, Blank),
               label_lookup_'[label[t]] = Len(level0) + 1,
               \A l \in Label : l # label[t] => label_lookup_'[l] = label_lookup_[l]
        PROVE  LookupsKept'
    BY <2>3, <2>4 DEF LookupsKept, Between
  <2> QED
    BY <1>0, <1>15, <2>1, <2>2, <2>4, LookupMoves DEF Comes, Has
<1>16. ASSUME NEW t \in Thread, Found(t) PROVE LookupsKept'
  <2>1. OthersStay(t)
    BY <1>0, <1>16, PlainMoves DEF Comes, Has
  <2>2. pc[t] \notin {"table", "init"} /\ UNCHANGED <<level0, label_lookup_>>
    BY <1>16 DEF Found
  <2> QED
    BY <1>0, <2>1, <2>2, LookupsStay
<1>17. ASSUME NEW t \in Thread, InitSlot(t) PROVE LookupsKept'
  <2> SUFFICES ASSUME NEW l \in Label, label_lookup_'[l] # 0
               PROVE  \/ level0'[label_lookup_'[l]].label = l
                      \/ \E u \in Thread : Between(u, l, label_lookup_[l])'
    BY DEF LookupsKept, Between
  <2> DEFINE r == label_lookup_[l]
             entry == [label |-> label[t], data |-> vector[t], deleted |-> FALSE]
  <2>1. UNCHANGED label_lookup_ /\ pc[t] = "init"
    BY <1>17 DEF InitSlot
  <2>2. Writes(slot[t], entry) /\ level0[slot[t]] = Blank
    BY <1>17, InitSlotWrites
  <2>3. OthersStay(t)
    BY <1>0, <1>17, PlainMoves DEF Comes, Has
  <2>4. r \in 1..Len(level0)
    BY <1>0, <2>1 DEF Types
  <2>5. level0[r].label = l \/ \E u \in Thread : Between(u, l, r)
    BY <1>0, <2>1 DEF LookupsKept
  <2>6. CASE r = slot[t]
    <3>1. \A u \in Thread : u # t => ~Between(u, l, r)
      BY <1>0, <2>1, <2>6 DEF Between, OneUser, Using, Writing
    <3>2. level0[r].label # l
      BY <2>2, <2>6, EntryFacts DEF Blank, NoLabel, BatchAssumption
    <3>3. l = label[t]
      BY <2>1, <2>5, <3>1, <3>2 DEF Between
    <3> QED
      BY <2>1, <2>2, <2>6, <3>3 DEF Writes
  <2>7. CASE r # slot[t]
    <3>1. level0'[r] = level0[r]
      BY <2>2, <2>4, <2>7 DEF Writes
    <3>2. ASSUME NEW u \in Thread, Between(u, l, r)
          PROVE  Between(u, l, label_lookup_[l])'
      BY <2>1, <2>3, <2>7, <3>2 DEF Between, OthersStay
    <3> QED
      BY <2>1, <2>5, <3>1, <3>2
  <2> QED
    BY <2>6, <2>7
<1>18. ASSUME NEW t \in Thread, WriteData(t) PROVE LookupsKept'
  <2> DEFINE entry == [label |-> label[t], data |-> vector[t], deleted |-> FALSE]
  <2>1. Writes(slot[t], entry) /\ level0[slot[t]].label = label[t]
    BY <1>18, WriteDataWrites
  <2>2. \A r \in 1..Len(level0) : level0'[r].label = level0[r].label
    BY <2>1 DEF Writes
  <2>3. OthersStay(t)
    BY <1>0, <1>18, PlainMoves DEF Comes, Has
  <2>4. pc[t] \notin {"table", "init"} /\ UNCHANGED label_lookup_
    BY <1>18 DEF WriteData
  <2> QED
    BY <1>0, <2>2, <2>3, <2>4, LookupsStay
<1>19. ASSUME NEW t \in Thread, Link(t) PROVE LookupsKept'
  <2>1. OthersStay(t)
    BY <1>0, <1>19, PlainMoves DEF Comes, Has
  <2>2. pc[t] \notin {"table", "init"} /\ UNCHANGED <<level0, label_lookup_>>
    BY <1>19 DEF Link
  <2> QED
    BY <1>0, <2>1, <2>2, LookupsStay
<1>20. ASSUME NEW t \in Thread, LinkThrows(t) PROVE LookupsKept'
  <2>1. OthersStay(t)
    BY <1>0, <1>20, PlainMoves DEF Comes, Has
  <2>2. pc[t] \notin {"table", "init"} /\ UNCHANGED <<level0, label_lookup_>>
    BY <1>20 DEF LinkThrows
  <2> QED
    BY <1>0, <2>1, <2>2, LookupsStay
<1> QED
  BY <1>1, <1>2, <1>3, <1>4, <1>5, <1>6, <1>7, <1>8, <1>9, <1>10, <1>11,
     <1>12, <1>13, <1>14, <1>15, <1>16, <1>17, <1>18, <1>19, <1>20, <1>21 DEF Next, Step

TakenSlots == {slot[t] : t \in {u \in Thread : Taken(u)}}
CountSlots == {slot[t] : t \in {u \in Thread : pc[u] = "count"}}

LEMMA FreeListForm ==
  /\ FreeListAccounted <=>
       /\ num_deleted_ = Cardinality(Marked(level0) \union CountSlots)
       /\ allow_replace_deleted_ => deleted_elements = Marked(level0) \ TakenSlots
  /\ FreeListAccounted' <=>
       /\ num_deleted_' = Cardinality(Marked(level0') \union CountSlots')
       /\ allow_replace_deleted_' => deleted_elements' = Marked(level0') \ TakenSlots'
BY DEF FreeListAccounted, Marked, TakenSlots, CountSlots, Taken

(* A step of t that has no count to do before or after.                    *)
NoCount(t) == pc[t] # "count" /\ pc'[t] # "count"

LEMMA SameCount ==
  ASSUME NEW t \in Thread, OthersStay(t), NoCount(t)
  PROVE  CountSlots' = CountSlots
<1>1. \A u \in Thread : (pc'[u] = "count" <=> pc[u] = "count")
  BY DEF OthersStay, NoCount
<1>2. \A u \in Thread : pc[u] = "count" => slot'[u] = slot[u]
  BY DEF OthersStay, NoCount
<1> QED
  BY <1>1, <1>2 DEF CountSlots

(* Marks, count and list stay, and t has not taken a slot or given one up, *)
(* nor a count to do.                                                      *)
LEMMA FreeListStays ==
  ASSUME FreeListAccounted, NEW t \in Thread, OthersStay(t), NoCount(t),
         UNCHANGED <<num_deleted_, allow_replace_deleted_, deleted_elements>>,
         Marked(level0') = Marked(level0),
         allow_replace_deleted_ => (Taken(t)' <=> Taken(t)),
         Taken(t) => slot'[t] = slot[t]
  PROVE  FreeListAccounted'
<1>1. ASSUME allow_replace_deleted_ PROVE TakenSlots' = TakenSlots
  <2>1. \A u \in Thread : Taken(u)' <=> Taken(u)
    BY <1>1 DEF OthersStay, Taken
  <2>2. \A u \in Thread : Taken(u) => slot'[u] = slot[u]
    BY DEF OthersStay
  <2> QED
    BY <2>1, <2>2 DEF TakenSlots
<1>2. CountSlots' = CountSlots
  BY SameCount
<1> QED
  BY <1>1, <1>2, FreeListForm

(* A mark set or cleared moves the count by one.                           *)
LEMMA MarkCounts ==
  ASSUME level0 \in Seq(Entry), NEW s \in 1..Len(level0), NEW entry,
         Writes(s, entry), FreeListAccounted, CountSlots = {}
  PROVE  /\ entry.deleted = TRUE /\ ~level0[s].deleted =>
              Cardinality(Marked(level0')) = num_deleted_ + 1
         /\ entry.deleted = FALSE /\ level0[s].deleted =>
              Cardinality(Marked(level0')) = num_deleted_ - 1
<1>1. /\ IsFiniteSet(Marked(level0))
      /\ Cardinality(Marked(level0)) \in Nat
      /\ num_deleted_ = Cardinality(Marked(level0))
      /\ \A r \in 1..Len(level0) : r \in Marked(level0) <=> level0[r].deleted
  BY MarkedFacts, FreeListForm
<1>2. ASSUME entry.deleted = TRUE, ~level0[s].deleted
      PROVE  Cardinality(Marked(level0')) = num_deleted_ + 1
  <2>1. Marked(level0') = Marked(level0) \union {s} /\ s \notin Marked(level0)
    BY <1>1, <1>2 DEF Writes
  <2>2. Cardinality(Marked(level0) \union {s}) = Cardinality(Marked(level0)) + 1
    BY <1>1, <2>1, FS_AddElement
  <2> QED
    BY <1>1, <2>1, <2>2
<1>3. ASSUME entry.deleted = FALSE, level0[s].deleted
      PROVE  Cardinality(Marked(level0')) = num_deleted_ - 1
  <2>1. Marked(level0') = Marked(level0) \ {s} /\ s \in Marked(level0)
    BY <1>1, <1>3 DEF Writes
  <2> QED
    BY <1>1, <2>1, FS_RemoveElement
<1> QED
  BY <1>2, <1>3

(* What is counted are slots of the base layer.                            *)
LEMMA Countable ==
  ASSUME Kept
  PROVE  LET all == Marked(level0) \union CountSlots IN
         IsFiniteSet(all) /\ Cardinality(all) \in 0..Len(level0)
<1> DEFINE all == Marked(level0) \union CountSlots
<1>1. Len(level0) \in Nat /\ level0 \in Seq(Entry)
  BY DEF Kept, Types
<1>2. Marked(level0) \subseteq 1..Len(level0)
  BY <1>1, MarkedFacts
<1>3. CountSlots \subseteq 1..Len(level0)
  BY UsedSlot DEF CountSlots, Using, Writing
<1>4. all \in SUBSET (1..Len(level0))
  BY <1>2, <1>3
<1>5. IsFiniteSet(1..Len(level0)) /\ Cardinality(1..Len(level0)) = Len(level0)
  BY <1>1, FS_Interval
<1> HIDE DEF all
<1>6. IsFiniteSet(all) /\ Cardinality(all) <= Len(level0)
  BY <1>4, <1>5, FS_Subset
<1>7. Cardinality(all) \in Nat
  BY <1>6, FS_CardinalityType
<1> QED
  BY <1>1, <1>6, <1>7 DEF all

(* Every action keeps the free list and the count of marked slots exact.   *)
LEMMA FreeListStaysExact ==
  ASSUME BatchAssumption, Kept, [Next]_vars
  PROVE  FreeListAccounted'
<1> USE DEF config, tables, batches, rows
<1>0. Types /\ ThreadTypes /\ Places /\ OneUser /\ SlotsKept /\ FreeListAccounted
  BY DEF Kept
<1>1. CASE UNCHANGED vars
  BY <1>0, <1>1 DEF vars, FreeListAccounted
<1>2. ASSUME NEW l \in Label, Mark(l) PROVE FreeListAccounted'
  <2> DEFINE s == label_lookup_[l]
             entry == [label |-> l, data |-> level0[s].data, deleted |-> TRUE]
  <2>1. batch = "none" /\ s # 0 /\ ~level0[s].deleted /\ UNCHANGED <<allow_replace_deleted_, rows>>
    BY <1>2 DEF Mark
  <2>2. Writes(s, entry)
    BY <1>2, <2>1, MarkWrites DEF Mark, Table!MarkDeletedInternal
  <2>3. s \in 1..Len(level0) /\ \A t \in Thread : pc[t] = "exited"
    BY <2>1, BetweenBatches
  <2>4. entry.deleted = TRUE /\ level0 \in Seq(Entry)
    BY <1>0 DEF Types
  <2>5. Marked(level0') = Marked(level0) \union {s}
    BY <2>2 DEF Writes
  <2> HIDE DEF entry
  <2>9. CountSlots = {} /\ CountSlots' = {}
    BY <2>1, <2>3 DEF CountSlots
  <2>6. num_deleted_' = Cardinality(Marked(level0') \union CountSlots')
    <3>1. num_deleted_' = num_deleted_ + 1
      BY <1>2 DEF Mark, Table!MarkDeletedInternal
    <3> QED
      BY <1>0, <2>1, <2>2, <2>3, <2>4, <2>9, <3>1, MarkCounts
  <2>7. TakenSlots = {} /\ TakenSlots' = {}
    BY <2>1, <2>3 DEF TakenSlots, Taken
  <2>8. allow_replace_deleted_ => deleted_elements' = deleted_elements \union {s}
    BY <1>2 DEF Mark, Table!MarkDeletedInternal
  <2> QED
    BY <1>0, <2>1, <2>5, <2>6, <2>7, <2>8, FreeListForm
<1>3. ASSUME NEW l \in Label, Unmark(l) PROVE FreeListAccounted'
  <2> DEFINE s == label_lookup_[l]
             entry == [label |-> l, data |-> level0[s].data, deleted |-> FALSE]
  <2>1. batch = "none" /\ s # 0 /\ level0[s].deleted /\ UNCHANGED <<allow_replace_deleted_, rows>>
    BY <1>3 DEF Unmark
  <2>2. Writes(s, entry)
    BY <1>3, <2>1, MarkWrites DEF Unmark, Table!UnmarkDeletedInternal
  <2>3. s \in 1..Len(level0) /\ \A t \in Thread : pc[t] = "exited"
    BY <2>1, BetweenBatches
  <2>4. entry.deleted = FALSE /\ level0 \in Seq(Entry)
    BY <1>0 DEF Types
  <2>5. Marked(level0') = Marked(level0) \ {s}
    BY <2>2 DEF Writes
  <2> HIDE DEF entry
  <2>9. CountSlots = {} /\ CountSlots' = {}
    BY <2>1, <2>3 DEF CountSlots
  <2>6. num_deleted_' = Cardinality(Marked(level0') \union CountSlots')
    <3>1. num_deleted_' = num_deleted_ - 1
      BY <1>3 DEF Unmark, Table!UnmarkDeletedInternal
    <3> QED
      BY <1>0, <2>1, <2>2, <2>3, <2>4, <2>9, <3>1, MarkCounts
  <2>7. TakenSlots = {} /\ TakenSlots' = {}
    BY <2>1, <2>3 DEF TakenSlots, Taken
  <2>8. allow_replace_deleted_ => deleted_elements' = deleted_elements \ {s}
    BY <1>3 DEF Unmark, Table!UnmarkDeletedInternal
  <2> QED
    BY <1>0, <2>1, <2>5, <2>6, <2>7, <2>8, FreeListForm
<1>4. ASSUME NEW kind \in {"plain", "replace"}, StartBatch(kind) PROVE FreeListAccounted'
  <2>1. \A t \in Thread : ~Taken(t) /\ ~Taken(t)' /\ NoCount(t)
    BY <1>0, <1>4 DEF StartBatch, Places, Taken, NoCount
  <2>2. TakenSlots' = TakenSlots /\ CountSlots' = CountSlots
    BY <2>1 DEF TakenSlots, CountSlots, NoCount
  <2> QED
    BY <1>0, <1>4, <2>2, FreeListForm DEF StartBatch
<1>5. CASE EndBatch
  BY <1>0, <1>5 DEF EndBatch, FreeListAccounted
<1>6. ASSUME NEW t \in Thread, Fetch(t) PROVE FreeListAccounted'
  <2>1. OthersStay(t) /\ (Taken(t)' <=> Taken(t)) /\ (Taken(t) => slot'[t] = slot[t]) /\ NoCount(t)
    BY <1>0, <1>6, FetchMoves DEF Fetch, Comes, Has, Taken, NoCount
  <2>2. UNCHANGED <<level0, num_deleted_, allow_replace_deleted_, deleted_elements>>
    BY <1>6 DEF Fetch
  <2> QED
    BY <1>0, <2>1, <2>2, FreeListStays
<1>7. ASSUME NEW t \in Thread, Exit(t) PROVE FreeListAccounted'
  <2>1. OthersStay(t) /\ (Taken(t)' <=> Taken(t)) /\ (Taken(t) => slot'[t] = slot[t]) /\ NoCount(t)
    BY <1>0, <1>7, PlainMoves DEF Exit, Comes, Has, Taken, NoCount
  <2>2. UNCHANGED <<level0, num_deleted_, allow_replace_deleted_, deleted_elements>>
    BY <1>7 DEF Exit
  <2> QED
    BY <1>0, <2>1, <2>2, FreeListStays
<1>8. ASSUME NEW t \in Thread, Throw(t) PROVE FreeListAccounted'
  <2>1. OthersStay(t) /\ (Taken(t)' <=> Taken(t)) /\ (Taken(t) => slot'[t] = slot[t]) /\ NoCount(t)
    BY <1>0, <1>8, PlainMoves DEF Throw, Comes, Has, Taken, NoCount
  <2>2. UNCHANGED <<level0, num_deleted_, allow_replace_deleted_, deleted_elements>>
    BY <1>8 DEF Throw
  <2> QED
    BY <1>0, <2>1, <2>2, FreeListStays
<1>9. ASSUME NEW t \in Thread, LockLabel(t) PROVE FreeListAccounted'
  <2>1. OthersStay(t) /\ (Taken(t)' <=> Taken(t)) /\ (Taken(t) => slot'[t] = slot[t]) /\ NoCount(t)
    BY <1>0, <1>9, PlainMoves DEF LockLabel, Comes, Has, Taken, NoCount
  <2>2. UNCHANGED <<level0, num_deleted_, allow_replace_deleted_, deleted_elements>>
    BY <1>9 DEF LockLabel
  <2> QED
    BY <1>0, <2>1, <2>2, FreeListStays
<1>10. ASSUME NEW t \in Thread, Pop(t) PROVE FreeListAccounted'
  <2>0. UNCHANGED <<level0, num_deleted_, allow_replace_deleted_>> /\ ~Taken(t)
    BY <1>10 DEF Pop, Taken
  <2>1. CASE Comes(t, "lookup") /\ UNCHANGED deleted_elements
    <3>1. OthersStay(t) /\ ~Taken(t)' /\ NoCount(t)
      BY <2>1, <1>10 DEF Pop, Comes, Has, Taken, NoCount
    <3> QED
      BY <1>0, <2>0, <2>1, <3>1, FreeListStays
  <2>2. ASSUME NEW s \in deleted_elements, deleted_elements' = deleted_elements \ {s},
               Has(t, "relabel", label[t], vector[t], s, old[t])
        PROVE  FreeListAccounted'
    <3>1. \A u \in Thread : Taken(u)' <=> Taken(u) \/ u = t
      BY <2>0, <2>2 DEF Has, OthersStay, Taken
    <3>2. slot'[t] = s /\ \A u \in Thread : Taken(u) => slot'[u] = slot[u]
      BY <2>0, <2>2 DEF Has, OthersStay
    <3>3. TakenSlots' = TakenSlots \union {s}
      BY <3>1, <3>2 DEF TakenSlots
    <3>4. CountSlots' = CountSlots
      <4>1. NoCount(t) /\ OthersStay(t)
        BY <1>10, <2>2 DEF Pop, Has, NoCount
      <4> QED
        BY <4>1, SameCount
    <3> QED
      BY <1>0, <2>0, <2>2, <3>3, <3>4, FreeListForm
  <2> QED
    BY <1>0, <1>10, <2>1, <2>2, PopMoves
<1>11. ASSUME NEW t \in Thread, Relabel(t) PROVE FreeListAccounted'
  <2> DEFINE entry == [label |-> label[t], data |-> level0[slot[t]].data, deleted |-> TRUE]
  <2>1. /\ slot[t] \in 1..Len(level0)
        /\ Writes(slot[t], entry)
        /\ level0[slot[t]].deleted = TRUE
    BY <1>11, RelabelWrites, EntryFacts, <1>0 DEF Types
  <2>2. \A r \in 1..Len(level0) : r \in Marked(level0) <=> level0[r].deleted
    BY <1>0, MarkedFacts DEF Types
  <2>3. Marked(level0') = Marked(level0)
    BY <2>1, <2>2 DEF Writes
  <2>4. /\ OthersStay(t)
        /\ (Taken(t)' <=> Taken(t)) /\ (Taken(t) => slot'[t] = slot[t]) /\ NoCount(t)
    BY <1>0, <1>11, RelabelMoves DEF Relabel, Comes, Has, Taken, NoCount
  <2>5. UNCHANGED <<num_deleted_, allow_replace_deleted_, deleted_elements>>
    BY <1>11 DEF Relabel
  <2> QED
    BY <1>0, <2>3, <2>4, <2>5, FreeListStays
<1>12. ASSUME NEW t \in Thread, SetLookup(t) PROVE FreeListAccounted'
  <2>1. OthersStay(t) /\ (Taken(t)' <=> Taken(t)) /\ (Taken(t) => slot'[t] = slot[t]) /\ NoCount(t)
    BY <1>0, <1>12, PlainMoves DEF SetLookup, Comes, Has, Taken, NoCount
  <2>2. UNCHANGED <<level0, num_deleted_, allow_replace_deleted_, deleted_elements>>
    BY <1>12 DEF SetLookup
  <2> QED
    BY <1>0, <2>1, <2>2, FreeListStays
<1>13. ASSUME NEW t \in Thread, ClearMark(t) PROVE FreeListAccounted'
  <2> DEFINE s == slot[t]
             entry == [label |-> label[t], data |-> level0[s].data, deleted |-> FALSE]
  <2>1. /\ s \in 1..Len(level0)
        /\ Writes(s, entry)
        /\ level0[s].deleted
        /\ UNCHANGED num_deleted_
    BY <1>13, ClearMarkWrites
  <2>2. entry.deleted = FALSE /\ level0 \in Seq(Entry)
    BY <1>0 DEF Types
  <2>3. Marked(level0') = Marked(level0) \ {s}
    BY <2>1 DEF Writes
  <2> HIDE DEF entry
  <2>7. Has(t, "count", label[t], vector[t], s, old[t]) /\ pc[t] = "unmark"
    BY <1>13, ClearMarkMoves DEF Comes, ClearMark
  <2>4. num_deleted_' = Cardinality(Marked(level0') \union CountSlots')
    <3>1. CountSlots' = CountSlots \union {s}
      <4>1. \A u \in Thread : pc'[u] = "count" <=> pc[u] = "count" \/ u = t
        BY <2>7 DEF Has, OthersStay
      <4>2. slot'[t] = s /\ \A u \in Thread : pc[u] = "count" => slot'[u] = slot[u]
        BY <2>7 DEF Has, OthersStay
      <4> QED
        BY <4>1, <4>2 DEF CountSlots
    <3>2. s \in Marked(level0)
      BY <1>0, <2>1, MarkedFacts DEF Types
    <3>3. Marked(level0') \union CountSlots' = Marked(level0) \union CountSlots
      BY <2>3, <3>1, <3>2
    <3> QED
      BY <1>0, <2>1, <3>3, FreeListForm
  <2>5. UNCHANGED <<allow_replace_deleted_, deleted_elements>> /\ Taken(t)
    BY <1>13 DEF ClearMark, Taken
  <2>6. ASSUME allow_replace_deleted_
        PROVE  deleted_elements = Marked(level0') \ TakenSlots'
    <3>1. Has(t, "count", label[t], vector[t], s, old[t])
      BY <2>7
    <3>2. \A u \in Thread : Taken(u)' <=> Taken(u) /\ u # t
      BY <3>1 DEF Has, OthersStay, Taken
    <3>3. \A u \in Thread : Taken(u) => slot'[u] = slot[u]
      BY <3>1 DEF Has, OthersStay
    <3>4. \A u \in Thread : Taken(u) /\ u # t => slot[u] # s
      BY <1>0, <2>5 DEF OneUser, Taken, Using, Writing
    <3>5. TakenSlots' = TakenSlots \ {s}
      BY <2>5, <3>2, <3>3, <3>4 DEF TakenSlots
    <3>6. s \in TakenSlots
      BY <2>5 DEF TakenSlots
    <3> QED
      BY <1>0, <2>3, <2>6, <3>5, <3>6, FreeListForm
  <2> QED
    BY <2>4, <2>5, <2>6, FreeListForm
<1>21. ASSUME NEW t \in Thread, CountDown(t) PROVE FreeListAccounted'
  <2> DEFINE s == slot[t]
             all == Marked(level0) \union CountSlots
  <2>1. /\ pc[t] = "count" /\ OthersStay(t) /\ pc'[t] # "count" /\ slot'[t] = s
        /\ ~Taken(t) /\ ~Taken(t)'
    BY <1>0, <1>21, PlainMoves DEF CountDown, Comes, Has, Taken
  <2>2. /\ UNCHANGED <<level0, allow_replace_deleted_, deleted_elements>>
        /\ num_deleted_' = num_deleted_ - 1
    BY <1>21 DEF CountDown
  <2>3. TakenSlots' = TakenSlots
    <3>1. \A u \in Thread : Taken(u)' <=> Taken(u)
      BY <2>1 DEF OthersStay, Taken
    <3>2. \A u \in Thread : Taken(u) => slot'[u] = slot[u]
      BY <2>1 DEF OthersStay
    <3> QED
      BY <3>1, <3>2 DEF TakenSlots
  <2>4. CountSlots' = CountSlots \ {s} /\ s \in CountSlots
    <3>1. \A u \in Thread : pc'[u] = "count" <=> pc[u] = "count" /\ u # t
      BY <2>1 DEF OthersStay
    <3>2. \A u \in Thread : u # t => slot'[u] = slot[u]
      BY <2>1 DEF OthersStay
    <3>3. \A u \in Thread : pc[u] = "count" /\ u # t => slot[u] # s
      BY <1>0, <2>1 DEF OneUser, Using, Writing
    <3> QED
      BY <2>1, <3>1, <3>2, <3>3 DEF CountSlots
  <2>5. s \notin Marked(level0)
    <3>1. ~level0[s].deleted
      BY <1>0, <2>1 DEF SlotsKept, SlotOf
    <3> QED
      BY <1>0, <3>1, MarkedFacts DEF Types
  <2>6. IsFiniteSet(all) /\ Cardinality(all) \in Nat
    BY Countable
  <2>7. Marked(level0') \union CountSlots' = all \ {s} /\ s \in all
    BY <2>2, <2>4, <2>5
  <2>8. num_deleted_ = Cardinality(all)
    BY <1>0, FreeListForm
  <2> HIDE DEF all, s
  <2>9. Cardinality(all \ {s}) = Cardinality(all) - 1
    BY <2>6, <2>7, FS_RemoveElement
  <2> QED
    BY <1>0, <2>2, <2>3, <2>7, <2>8, <2>9, FreeListForm
<1>14. ASSUME NEW t \in Thread, Unlist(t) PROVE FreeListAccounted'
  <2>1. OthersStay(t) /\ ~Taken(t) /\ ~Taken(t)' /\ NoCount(t)
    BY <1>0, <1>14, PlainMoves DEF Unlist, Comes, Has, Taken, NoCount
  <2>2. allow_replace_deleted_
    BY <1>0, <1>14 DEF Unlist, Places
  <2>3. slot[t] \notin deleted_elements
    BY <1>14, <2>2, FreeSlot DEF Unlist, Using, Writing
  <2>4. UNCHANGED <<level0, num_deleted_, allow_replace_deleted_, deleted_elements>>
    BY <1>14, <2>3 DEF Unlist
  <2> QED
    BY <1>0, <2>1, <2>4, FreeListStays
<1>15. ASSUME NEW t \in Thread, Lookup(t) PROVE FreeListAccounted'
  <2>1. pc[t] = "lookup" /\ label[t] \in Label
    BY <1>0, <1>15 DEF Lookup, Places, Idle
  <2>2. UNCHANGED <<num_deleted_, allow_replace_deleted_, deleted_elements>>
    BY <1>15 DEF Lookup
  <2>3. OthersStay(t) /\ ~Taken(t) /\ ~Taken(t)' /\ NoCount(t)
    BY <1>0, <1>15, <2>1, LookupMoves DEF Comes, Has, Taken, NoCount
  <2>4. Marked(level0') = Marked(level0)
    <3>1. UNCHANGED level0 \/ level0' = Append(level0, Blank)
      BY <1>0, <1>15, <2>1, LookupMoves
    <3> QED
      BY <1>0, <3>1, AppendFacts DEF Types
  <2> QED
    BY <1>0, <2>2, <2>3, <2>4, FreeListStays
<1>16. ASSUME NEW t \in Thread, Found(t) PROVE FreeListAccounted'
  <2>1. OthersStay(t) /\ ~Taken(t) /\ NoCount(t)
    BY <1>0, <1>16, PlainMoves DEF Found, Comes, Has, Taken, NoCount
  <2>2. allow_replace_deleted_ => ~Taken(t)'
    <3>1. allow_replace_deleted_ => ~level0[slot[t]].deleted
      BY <1>0, <1>16 DEF Found, SlotsKept, SlotOf
    <3> QED
      BY <1>0, <1>16, <3>1, PlainMoves DEF Comes, Has, Taken, NoCount
  <2>3. UNCHANGED <<level0, num_deleted_, allow_replace_deleted_, deleted_elements>>
    BY <1>16 DEF Found
  <2> QED
    BY <1>0, <2>1, <2>2, <2>3, FreeListStays
<1>17. ASSUME NEW t \in Thread, InitSlot(t) PROVE FreeListAccounted'
  <2> DEFINE entry == [label |-> label[t], data |-> vector[t], deleted |-> FALSE]
  <2>1. /\ slot[t] \in 1..Len(level0)
        /\ Writes(slot[t], entry)
        /\ level0[slot[t]].deleted = FALSE
    BY <1>17, InitSlotWrites DEF Blank
  <2>2. \A r \in 1..Len(level0) : r \in Marked(level0) <=> level0[r].deleted
    BY <1>0, MarkedFacts DEF Types
  <2>3. Marked(level0') = Marked(level0)
    BY <2>1, <2>2 DEF Writes
  <2>4. /\ OthersStay(t)
        /\ (Taken(t)' <=> Taken(t)) /\ (Taken(t) => slot'[t] = slot[t]) /\ NoCount(t)
    BY <1>0, <1>17, PlainMoves DEF InitSlot, Comes, Has, Taken, NoCount
  <2>5. UNCHANGED <<num_deleted_, allow_replace_deleted_, deleted_elements>>
    BY <1>17 DEF InitSlot
  <2> QED
    BY <1>0, <2>3, <2>4, <2>5, FreeListStays
<1>18. ASSUME NEW t \in Thread, WriteData(t) PROVE FreeListAccounted'
  <2> DEFINE entry == [label |-> label[t], data |-> vector[t], deleted |-> FALSE]
  <2>1. /\ slot[t] \in 1..Len(level0)
        /\ Writes(slot[t], entry)
        /\ level0[slot[t]].deleted = FALSE
    BY <1>18, WriteDataWrites, EntryFacts, <1>0 DEF Types
  <2>2. \A r \in 1..Len(level0) : r \in Marked(level0) <=> level0[r].deleted
    BY <1>0, MarkedFacts DEF Types
  <2>3. Marked(level0') = Marked(level0)
    BY <2>1, <2>2 DEF Writes
  <2>4. /\ OthersStay(t)
        /\ (Taken(t)' <=> Taken(t)) /\ (Taken(t) => slot'[t] = slot[t]) /\ NoCount(t)
    BY <1>0, <1>18, PlainMoves DEF WriteData, Comes, Has, Taken, NoCount
  <2>5. UNCHANGED <<num_deleted_, allow_replace_deleted_, deleted_elements>>
    BY <1>18 DEF WriteData
  <2> QED
    BY <1>0, <2>3, <2>4, <2>5, FreeListStays
<1>19. ASSUME NEW t \in Thread, Link(t) PROVE FreeListAccounted'
  <2>1. OthersStay(t) /\ (Taken(t)' <=> Taken(t)) /\ (Taken(t) => slot'[t] = slot[t]) /\ NoCount(t)
    BY <1>0, <1>19, PlainMoves DEF Link, Comes, Has, Taken, NoCount
  <2>2. UNCHANGED <<level0, num_deleted_, allow_replace_deleted_, deleted_elements>>
    BY <1>19 DEF Link
  <2> QED
    BY <1>0, <2>1, <2>2, FreeListStays
<1>20. ASSUME NEW t \in Thread, LinkThrows(t) PROVE FreeListAccounted'
  <2>1. OthersStay(t) /\ (Taken(t)' <=> Taken(t)) /\ (Taken(t) => slot'[t] = slot[t]) /\ NoCount(t)
    BY <1>0, <1>20, PlainMoves DEF LinkThrows, Comes, Has, Taken, NoCount
  <2>2. UNCHANGED <<level0, num_deleted_, allow_replace_deleted_, deleted_elements>>
    BY <1>20 DEF LinkThrows
  <2> QED
    BY <1>0, <2>1, <2>2, FreeListStays
<1> QED
  BY <1>1, <1>2, <1>3, <1>4, <1>5, <1>6, <1>7, <1>8, <1>9, <1>10, <1>11,
     <1>12, <1>13, <1>14, <1>15, <1>16, <1>17, <1>18, <1>19, <1>20, <1>21 DEF Next, Step

(* All parts together.                                                     *)
LEMMA KeptIsInductive ==
  ASSUME BatchAssumption, Kept, [Next]_vars
  PROVE  Kept'
BY TypesKept, PlacesKept, LabelsStayLocked, SlotsStayApart, SlotsStayKept,
   LookupsStayKept, FreeListStaysExact DEF Kept

(* What the label locks and the free list guarantee together, whatever the *)
(* callers pass.                                                           *)
THEOREM KeptAlways == Spec => []Kept
<1>1. Init => Kept
  BY BatchAssumption, InitKept
<1>2. Kept /\ [Next]_vars => Kept'
  BY BatchAssumption, KeptIsInductive
<1> QED
  BY <1>1, <1>2, PTL DEF Spec

(* However many rows and threads a batch has, no two threads write the same *)
(* slot, and the base layer stays inside its allocation.                   *)
THEOREM ExclusiveSlots == Spec => []SlotExclusive
<1>1. Kept => SlotExclusive
  <2> SUFFICES ASSUME Kept PROVE SlotExclusive
    OBVIOUS
  <2>1. num_deleted_ \in 0..Len(level0)
    BY Countable, FreeListForm DEF Kept
  <2>2. TypeOK
    BY <2>1 DEF Kept, Types, ThreadTypes, TypeOK
  <2>3. \A t \in Thread : pc[t] \in Writing => slot[t] \in 1..Len(level0)
    BY UsedSlot DEF Using
  <2>4. \A t, u \in Thread :
          t # u /\ pc[t] \in Writing /\ pc[u] \in Writing => slot[t] # slot[u]
    BY DEF Kept, OneUser, Using
  <2> QED
    BY <2>2, <2>3, <2>4 DEF SlotExclusive, Kept, Types
<1> QED
  BY <1>1, KeptAlways, PTL

(* However the threads interleave, the free list is the marked slots that  *)
(* no thread has taken, and the count of marked slots is exact but for     *)
(* those cleared and not yet counted.                                      *)
THEOREM FreeListExactInBatches == Spec => []FreeListAccounted
<1>1. Kept => FreeListAccounted
  BY DEF Kept
<1> QED
  BY <1>1, KeptAlways, PTL

-----------------------------------------------------------------------------
(* Careful callers.  A slot is where its label leads, but for a slot whose *)
(* label a thread has not finished changing, ...                           *)

Moving(t, s) ==
  /\ slot[t] = s
  /\ (pc[t] = "table" /\ label_lookup_[old[t]] = s) \/ pc[t] = "init"

SlotsFound ==
  \A s \in 1..Len(level0) :
    \/ level0[s].label \in Label /\ label_lookup_[level0[s].label] = s
    \/ \E t \in Thread : Moving(t, s)

(* ... a thread's label leads to its slot once the table is set, ...       *)
RowFound(t) ==
  Using(t) /\ pc[t] \notin {"relabel", "table"} => label_lookup_[label[t]] = slot[t]

RowsFound == \A t \in Thread : RowFound(t)

(* ... and before that the label is new, and no other row asks for it.     *)
IsNew(t) == pc[t] \in {"refused", "lock", "pop", "relabel", "table", "lookup"}

Requests ==
  batch = "replace" =>
    /\ \A l \in Label : label_lookup_[l] # 0 => l \in requested
    /\ \A t \in Thread : ~Idle(t) => label[t] \in requested
    /\ \A t \in Thread : IsNew(t) => label_lookup_[label[t]] = 0
    /\ \A t, u \in Thread : t # u /\ ~Idle(t) /\ ~Idle(u) => label[t] # label[u]

CarefulKept == careful => SlotsFound /\ RowsFound /\ Requests

(* Between the two writes of a replacement, its slot is still found under  *)
(* the old label and not yet under the new one.                            *)
LEMMA OldLeads ==
  ASSUME BatchAssumption, Kept, SlotsFound, Requests, NEW t \in Thread, SetLookup(t)
  PROVE  /\ slot[t] \in 1..Len(level0)
         /\ level0[slot[t]].label = label[t]
         /\ label[t] \in Label /\ old[t] \in Label
         /\ label_lookup_[label[t]] = 0
         /\ label_lookup_[old[t]] = slot[t]
         /\ label_lookup_'[label[t]] = slot[t]
         /\ label_lookup_'[old[t]] = 0
         /\ \A l \in Label : l # label[t] /\ l # old[t] =>
              label_lookup_'[l] = label_lookup_[l]
<1>1. pc[t] = "table"
  BY DEF SetLookup
<1>2. slot[t] \in 1..Len(level0) /\ slot[t] # 0
  BY <1>1, UsedSlot DEF Using, Writing, Kept, Places
<1>3. level0[slot[t]].label = label[t]
  BY <1>1 DEF Kept, SlotsKept, SlotOf, Using, Writing
<1>4. label[t] \in Label /\ old[t] \in Label /\ batch = "replace"
  BY <1>1 DEF Kept, Places, Idle
<1>5. label_lookup_[label[t]] = 0
  BY <1>1, <1>4 DEF Requests, IsNew
<1>6. PICK u \in Thread : Moving(u, slot[t])
  BY <1>2, <1>3, <1>5 DEF SlotsFound
<1>7. u = t
  BY <1>1, <1>6 DEF Moving, Kept, OneUser, Using, Writing
<1>8. label_lookup_[old[t]] = slot[t]
  BY <1>1, <1>6, <1>7 DEF Moving
<1>9. label_lookup_' = [label_lookup_ EXCEPT ![old[t]] = 0, ![label[t]] = slot[t]]
  BY DEF SetLookup
<1>10. label_lookup_ \in [Label -> 0..Len(level0)]
  BY DEF Kept, Types
<1>11. label[t] # old[t]
  BY <1>2, <1>5, <1>8
<1> QED
  BY <1>2, <1>3, <1>4, <1>5, <1>8, <1>9, <1>10, <1>11

(* Every slot stays where its label leads when the step of t writes        *)
(* neither a label nor the lookup table.                                   *)
LEMMA SlotsFoundStays ==
  ASSUME SlotsFound, NEW t \in Thread, OthersStay(t), UNCHANGED label_lookup_,
         Len(level0') = Len(level0), pc[t] \notin {"table", "init"},
         \A r \in 1..Len(level0) : level0'[r].label = level0[r].label
  PROVE  SlotsFound'
<1> SUFFICES ASSUME NEW s \in 1..Len(level0)
             PROVE  \/ level0'[s].label \in Label /\ label_lookup_[level0'[s].label] = s
                    \/ \E u \in Thread : Moving(u, s)'
  BY DEF SlotsFound
<1>1. ASSUME NEW u \in Thread, Moving(u, s) PROVE Moving(u, s)'
  BY <1>1 DEF Moving, OthersStay
<1> QED
  BY <1>1 DEF SlotsFound

(* With careful callers every action keeps every slot found.               *)
LEMMA SlotsStayFound ==
  ASSUME BatchAssumption, Kept, careful, SlotsFound, RowsFound, Requests,
         [Next]_vars
  PROVE  SlotsFound'
<1> USE DEF config, tables, batches, rows
<1>0. Types /\ ThreadTypes /\ Places /\ OneUser /\ SlotsKept /\ LabelsLocked
  BY DEF Kept
<1>1. CASE UNCHANGED vars
  BY <1>1 DEF vars, SlotsFound, Moving
<1>2. ASSUME NEW l \in Label, Mark(l) PROVE SlotsFound'
  <2>1. batch = "none" /\ label_lookup_[l] # 0 /\ UNCHANGED <<label_lookup_, rows>>
    BY <1>2 DEF Mark
  <2>2. level0[label_lookup_[l]].label = l /\ \A t \in Thread : pc[t] = "exited"
    BY <2>1, BetweenBatches
  <2>3. Writes(label_lookup_[l], [label |-> l, data |-> level0[label_lookup_[l]].data,
                                 deleted |-> TRUE])
    BY <1>2, <2>1, MarkWrites DEF Mark, Table!MarkDeletedInternal
  <2>4. /\ Len(level0') = Len(level0)
        /\ \A r \in 1..Len(level0) : level0'[r].label = level0[r].label
    BY <2>2, <2>3 DEF Writes
  <2> QED
    BY <2>1, <2>2, <2>4 DEF SlotsFound, Moving
<1>3. ASSUME NEW l \in Label, Unmark(l) PROVE SlotsFound'
  <2>1. batch = "none" /\ label_lookup_[l] # 0 /\ UNCHANGED <<label_lookup_, rows>>
    BY <1>3 DEF Unmark
  <2>2. level0[label_lookup_[l]].label = l /\ \A t \in Thread : pc[t] = "exited"
    BY <2>1, BetweenBatches
  <2>3. Writes(label_lookup_[l], [label |-> l, data |-> level0[label_lookup_[l]].data,
                                 deleted |-> FALSE])
    BY <1>3, <2>1, MarkWrites DEF Unmark, Table!UnmarkDeletedInternal
  <2>4. /\ Len(level0') = Len(level0)
        /\ \A r \in 1..Len(level0) : level0'[r].label = level0[r].label
    BY <2>2, <2>3 DEF Writes
  <2> QED
    BY <2>1, <2>2, <2>4 DEF SlotsFound, Moving
<1>4. ASSUME NEW kind \in {"plain", "replace"}, StartBatch(kind) PROVE SlotsFound'
  <2>1. \A t \in Thread : pc[t] = "exited"
    BY <1>0, <1>4 DEF Places, StartBatch
  <2> QED
    BY <1>4, <2>1 DEF StartBatch, SlotsFound, Moving
<1>5. CASE EndBatch
  BY <1>5 DEF EndBatch, SlotsFound, Moving
<1>6. ASSUME NEW t \in Thread, Fetch(t) PROVE SlotsFound'
  <2>1. OthersStay(t)
    BY <1>0, <1>6, FetchMoves DEF Comes, Has
  <2>2. pc[t] \notin {"table", "init"} /\ UNCHANGED <<level0, label_lookup_>>
    BY <1>6 DEF Fetch
  <2> QED
    BY <2>1, <2>2, SlotsFoundStays
<1>7. ASSUME NEW t \in Thread, Exit(t) PROVE SlotsFound'
  <2>1. OthersStay(t)
    BY <1>0, <1>7, PlainMoves DEF Comes, Has
  <2>2. pc[t] \notin {"table", "init"} /\ UNCHANGED <<level0, label_lookup_>>
    BY <1>7 DEF Exit
  <2> QED
    BY <2>1, <2>2, SlotsFoundStays
<1>8. ASSUME NEW t \in Thread, Throw(t) PROVE SlotsFound'
  <2>1. OthersStay(t)
    BY <1>0, <1>8, PlainMoves DEF Comes, Has
  <2>2. pc[t] \notin {"table", "init"} /\ UNCHANGED <<level0, label_lookup_>>
    BY <1>8 DEF Throw
  <2> QED
    BY <2>1, <2>2, SlotsFoundStays
<1>9. ASSUME NEW t \in Thread, LockLabel(t) PROVE SlotsFound'
  <2>1. OthersStay(t)
    BY <1>0, <1>9, PlainMoves DEF Comes, Has
  <2>2. pc[t] \notin {"table", "init"} /\ UNCHANGED <<level0, label_lookup_>>
    BY <1>9 DEF LockLabel
  <2> QED
    BY <2>1, <2>2, SlotsFoundStays
<1>10. ASSUME NEW t \in Thread, Pop(t) PROVE SlotsFound'
  <2>1. OthersStay(t)
    BY <1>0, <1>10, PopMoves DEF Comes, Has
  <2>2. pc[t] \notin {"table", "init"} /\ UNCHANGED <<level0, label_lookup_>>
    BY <1>10 DEF Pop
  <2> QED
    BY <2>1, <2>2, SlotsFoundStays
<1>11. ASSUME NEW t \in Thread, Relabel(t) PROVE SlotsFound'
  <2> SUFFICES ASSUME NEW s \in 1..Len(level0')
               PROVE  \/ /\ level0'[s].label \in Label
                         /\ label_lookup_'[level0'[s].label] = s
                      \/ \E u \in Thread : Moving(u, s)'
    BY DEF SlotsFound
  <2>1. UNCHANGED label_lookup_ /\ pc[t] = "relabel"
    BY <1>11 DEF Relabel
  <2>2. /\ Writes(slot[t], [label |-> label[t], data |-> level0[slot[t]].data,
                            deleted |-> TRUE])
        /\ level0[slot[t]].label \in Label
    BY <1>11, RelabelWrites
  <2>3. s \in 1..Len(level0)
    BY <2>2 DEF Writes
  <2>4. /\ OthersStay(t)
        /\ pc'[t] = "table"
        /\ slot'[t] = slot[t]
        /\ old'[t] = level0[slot[t]].label
    BY <1>0, <1>11, RelabelMoves DEF Has
  <2>5. CASE s = slot[t]
    <3>1. \A u \in Thread : ~Moving(u, s)
      BY <1>0, <2>1, <2>5 DEF Moving, OneUser, Using, Writing
    <3>2. label_lookup_[level0[s].label] = s
      BY <2>3, <3>1 DEF SlotsFound
    <3>3. Moving(t, s)'
      BY <2>1, <2>4, <2>5, <3>2 DEF Moving
    <3> QED
      BY <3>3
  <2>6. CASE s # slot[t]
    <3>1. level0'[s] = level0[s]
      BY <2>2, <2>3, <2>6 DEF Writes
    <3>2. ASSUME NEW u \in Thread, Moving(u, s) PROVE Moving(u, s)'
      BY <2>1, <2>4, <3>2 DEF Moving, OthersStay
    <3> QED
      BY <2>1, <2>3, <3>1, <3>2 DEF SlotsFound
  <2> QED
    BY <2>5, <2>6
<1>12. ASSUME NEW t \in Thread, SetLookup(t) PROVE SlotsFound'
  <2> SUFFICES ASSUME NEW s \in 1..Len(level0')
               PROVE  \/ /\ level0'[s].label \in Label
                         /\ label_lookup_'[level0'[s].label] = s
                      \/ \E u \in Thread : Moving(u, s)'
    BY DEF SlotsFound
  <2>1. UNCHANGED level0 /\ pc[t] = "table"
    BY <1>12 DEF SetLookup
  <2>2. OthersStay(t)
    BY <1>0, <1>12, PlainMoves DEF Comes, Has
  <2>3. CASE s = slot[t]
    BY <1>12, <2>1, <2>3, OldLeads
  <2>4. ASSUME s # slot[t], level0[s].label \in Label,
               label_lookup_[level0[s].label] = s
        PROVE  label_lookup_'[level0[s].label] = s
    <3> DEFINE l == level0[s].label
    <3>1. s # 0
      OBVIOUS
    <3>2. l # label[t] /\ l # old[t]
      BY <1>12, <2>4, <3>1, OldLeads
    <3> HIDE DEF l
    <3>3. label_lookup_'[l] = label_lookup_[l]
      BY <1>12, <2>4, <3>2, OldLeads DEF l
    <3> QED
      BY <2>4, <3>3 DEF l
  <2>5. ASSUME s # slot[t], NEW u \in Thread, Moving(u, s) PROVE Moving(u, s)'
    <3>1. u # t /\ s # 0
      BY <2>1, <2>5 DEF Moving
    <3>2. pc[u] = "table" => old[u] \in Label
      BY <1>0 DEF Places
    <3>3. pc[u] = "table" => old[u] # old[t] /\ old[u] # label[t]
      BY <1>12, <2>5, <3>1, OldLeads DEF Moving
    <3>4. pc[u] = "table" => label_lookup_'[old[u]] = label_lookup_[old[u]]
      BY <1>12, <3>2, <3>3, OldLeads
    <3> QED
      BY <2>2, <2>5, <3>1, <3>4 DEF Moving, OthersStay
  <2> QED
    BY <2>1, <2>3, <2>4, <2>5 DEF SlotsFound
<1>13. ASSUME NEW t \in Thread, ClearMark(t) PROVE SlotsFound'
  <2> DEFINE entry == [label |-> label[t], data |-> level0[slot[t]].data, deleted |-> FALSE]
  <2>1. Writes(slot[t], entry) /\ level0[slot[t]].label = label[t]
    BY <1>13, ClearMarkWrites
  <2>2. /\ Len(level0') = Len(level0)
        /\ \A r \in 1..Len(level0) : level0'[r].label = level0[r].label
    BY <2>1 DEF Writes
  <2>3. OthersStay(t)
    BY <1>0, <1>13, ClearMarkMoves DEF Comes, Has
  <2>4. pc[t] \notin {"table", "init"} /\ UNCHANGED label_lookup_
    BY <1>13 DEF ClearMark
  <2> QED
    BY <2>2, <2>3, <2>4, SlotsFoundStays
<1>21. ASSUME NEW t \in Thread, CountDown(t) PROVE SlotsFound'
  <2>1. OthersStay(t)
    BY <1>0, <1>21, PlainMoves DEF Comes, Has
  <2>2. pc[t] \notin {"table", "init"} /\ UNCHANGED <<level0, label_lookup_>>
    BY <1>21 DEF CountDown
  <2> QED
    BY <2>1, <2>2, SlotsFoundStays
<1>14. ASSUME NEW t \in Thread, Unlist(t) PROVE SlotsFound'
  <2>1. OthersStay(t)
    BY <1>0, <1>14, PlainMoves DEF Comes, Has
  <2>2. pc[t] \notin {"table", "init"} /\ UNCHANGED <<level0, label_lookup_>>
    BY <1>14 DEF Unlist
  <2> QED
    BY <2>1, <2>2, SlotsFoundStays
<1>15. ASSUME NEW t \in Thread, Lookup(t) PROVE SlotsFound'
  <2>1. pc[t] = "lookup" /\ label[t] \in Label
    BY <1>0, <1>15 DEF Lookup, Places, Idle
  <2>2. ASSUME OthersStay(t), UNCHANGED <<level0, label_lookup_>> PROVE SlotsFound'
    BY <2>1, <2>2, SlotsFoundStays
  <2>3. ASSUME Has(t, "init", label[t], vector[t], Len(level0) + 1, old[t]),
               level0' = Append(level0, Blank), label_lookup_[label[t]] = 0,
               label_lookup_'[label[t]] = Len(level0) + 1,
               \A l \in Label : l # label[t] => label_lookup_'[l] = label_lookup_[l],
               NEW s \in 1..Len(level0')
        PROVE  \/ level0'[s].label \in Label /\ label_lookup_'[level0'[s].label] = s
               \/ \E u \in Thread : Moving(u, s)'
    <3>1. /\ Len(level0') = Len(level0) + 1
          /\ \A r \in 1..Len(level0) : level0'[r] = level0[r]
      BY <1>0, <2>3, AppendFacts DEF Types
    <3>2. CASE s = Len(level0) + 1
      BY <2>3, <3>2 DEF Has, Moving
    <3>3. CASE s # Len(level0) + 1
      <4>1. s \in 1..Len(level0) /\ s # 0
        BY <1>0, <3>1, <3>3 DEF Types
      <4>2. level0'[s] = level0[s]
        BY <3>1, <4>1
      <4>3. ASSUME level0[s].label \in Label, label_lookup_[level0[s].label] = s
            PROVE  label_lookup_'[level0[s].label] = s
        BY <2>3, <4>1, <4>3
      <4>4. ASSUME NEW u \in Thread, Moving(u, s) PROVE Moving(u, s)'
        <5>1. u # t
          BY <2>1, <4>4 DEF Moving
        <5>2. pc[u] = "table" => label_lookup_'[old[u]] = label_lookup_[old[u]]
          BY <1>0, <2>3, <4>1, <4>4 DEF Moving, Places
        <5> QED
          BY <2>3, <4>4, <5>1, <5>2 DEF Moving, Has, OthersStay
      <4> QED
        BY <4>1, <4>2, <4>3, <4>4 DEF SlotsFound
    <3> QED
      BY <3>2, <3>3
  <2>4. ASSUME Has(t, "init", label[t], vector[t], Len(level0) + 1, old[t]),
               level0' = Append(level0, Blank), label_lookup_[label[t]] = 0,
               label_lookup_'[label[t]] = Len(level0) + 1,
               \A l \in Label : l # label[t] => label_lookup_'[l] = label_lookup_[l]
        PROVE  SlotsFound'
    BY <2>3, <2>4 DEF SlotsFound
  <2> QED
    BY <1>0, <1>15, <2>1, <2>2, <2>4, LookupMoves DEF Comes, Has
<1>16. ASSUME NEW t \in Thread, Found(t) PROVE SlotsFound'
  <2>1. OthersStay(t)
    BY <1>0, <1>16, PlainMoves DEF Comes, Has
  <2>2. pc[t] \notin {"table", "init"} /\ UNCHANGED <<level0, label_lookup_>>
    BY <1>16 DEF Found
  <2> QED
    BY <2>1, <2>2, SlotsFoundStays
<1>17. ASSUME NEW t \in Thread, InitSlot(t) PROVE SlotsFound'
  <2> SUFFICES ASSUME NEW s \in 1..Len(level0')
               PROVE  \/ /\ level0'[s].label \in Label
                         /\ label_lookup_'[level0'[s].label] = s
                      \/ \E u \in Thread : Moving(u, s)'
    BY DEF SlotsFound
  <2> DEFINE entry == [label |-> label[t], data |-> vector[t], deleted |-> FALSE]
  <2>1. UNCHANGED label_lookup_ /\ pc[t] = "init" /\ label[t] \in Label
    BY <1>0, <1>17 DEF InitSlot, Places, Idle
  <2>2. Writes(slot[t], entry)
    BY <1>17, InitSlotWrites
  <2>3. OthersStay(t)
    BY <1>0, <1>17, PlainMoves DEF Comes, Has
  <2>4. s \in 1..Len(level0)
    BY <2>2 DEF Writes
  <2>5. CASE s = slot[t]
    <3>1. label_lookup_[label[t]] = s
      BY <2>1, <2>5 DEF RowsFound, RowFound, Using, Writing
    <3> QED
      BY <2>1, <2>2, <2>5, <3>1 DEF Writes
  <2>6. CASE s # slot[t]
    <3>1. level0'[s] = level0[s]
      BY <2>2, <2>4, <2>6 DEF Writes
    <3>2. ASSUME NEW u \in Thread, Moving(u, s) PROVE Moving(u, s)'
      BY <2>1, <2>3, <2>6, <3>2 DEF Moving, OthersStay
    <3> QED
      BY <2>1, <2>4, <3>1, <3>2 DEF SlotsFound
  <2> QED
    BY <2>5, <2>6
<1>18. ASSUME NEW t \in Thread, WriteData(t) PROVE SlotsFound'
  <2> DEFINE entry == [label |-> label[t], data |-> vector[t], deleted |-> FALSE]
  <2>1. Writes(slot[t], entry) /\ level0[slot[t]].label = label[t]
    BY <1>18, WriteDataWrites
  <2>2. /\ Len(level0') = Len(level0)
        /\ \A r \in 1..Len(level0) : level0'[r].label = level0[r].label
    BY <2>1 DEF Writes
  <2>3. OthersStay(t)
    BY <1>0, <1>18, PlainMoves DEF Comes, Has
  <2>4. pc[t] \notin {"table", "init"} /\ UNCHANGED label_lookup_
    BY <1>18 DEF WriteData
  <2> QED
    BY <2>2, <2>3, <2>4, SlotsFoundStays
<1>19. ASSUME NEW t \in Thread, Link(t) PROVE SlotsFound'
  <2>1. OthersStay(t)
    BY <1>0, <1>19, PlainMoves DEF Comes, Has
  <2>2. pc[t] \notin {"table", "init"} /\ UNCHANGED <<level0, label_lookup_>>
    BY <1>19 DEF Link
  <2> QED
    BY <2>1, <2>2, SlotsFoundStays
<1>20. ASSUME NEW t \in Thread, LinkThrows(t) PROVE SlotsFound'
  <2>1. OthersStay(t)
    BY <1>0, <1>20, PlainMoves DEF Comes, Has
  <2>2. pc[t] \notin {"table", "init"} /\ UNCHANGED <<level0, label_lookup_>>
    BY <1>20 DEF LinkThrows
  <2> QED
    BY <2>1, <2>2, SlotsFoundStays
<1> QED
  BY <1>1, <1>2, <1>3, <1>4, <1>5, <1>6, <1>7, <1>8, <1>9, <1>10, <1>11,
     <1>12, <1>13, <1>14, <1>15, <1>16, <1>17, <1>18, <1>19, <1>20, <1>21 DEF Next, Step

LEMMA RowsFoundStays ==
  ASSUME RowsFound, NEW t \in Thread, OthersStay(t), UNCHANGED label_lookup_, RowFound(t)'
  PROVE  RowsFound'
BY DEF RowsFound, RowFound, OthersStay, Using

(* ... and keeps a thread's label leading to its slot: replacement removes *)
(* only the label of a slot that its own thread has taken.                 *)
LEMMA RowsStayFound ==
  ASSUME BatchAssumption, Kept, careful, SlotsFound, RowsFound, Requests,
         [Next]_vars
  PROVE  RowsFound'
<1> USE DEF config, tables, batches, rows
<1>0. Types /\ ThreadTypes /\ Places /\ OneUser /\ SlotsKept /\ LabelsLocked
  BY DEF Kept
<1>1. CASE UNCHANGED vars
  BY <1>1 DEF vars, RowsFound, RowFound, Using
<1>2. ASSUME NEW l \in Label, Mark(l) PROVE RowsFound'
  BY <1>2 DEF Mark, RowsFound, RowFound, Using
<1>3. ASSUME NEW l \in Label, Unmark(l) PROVE RowsFound'
  BY <1>3 DEF Unmark, RowsFound, RowFound, Using
<1>4. ASSUME NEW kind \in {"plain", "replace"}, StartBatch(kind) PROVE RowsFound'
  BY <1>4 DEF StartBatch, RowsFound, RowFound, Using, Writing
<1>5. CASE EndBatch
  BY <1>5 DEF EndBatch, RowsFound, RowFound, Using
<1>6. ASSUME NEW t \in Thread, Fetch(t) PROVE RowsFound'
  <2>1. OthersStay(t) /\ UNCHANGED label_lookup_
    BY <1>0, <1>6, FetchMoves DEF Fetch, Comes, Has
  <2>2. RowFound(t)'
    BY <1>0, <1>6, <2>1, FetchMoves DEF Fetch, Comes, Has, RowsFound, RowFound, Using, Writing
  <2> QED
    BY <2>1, <2>2, RowsFoundStays
<1>7. ASSUME NEW t \in Thread, Exit(t) PROVE RowsFound'
  <2>1. OthersStay(t) /\ UNCHANGED label_lookup_
    BY <1>0, <1>7, PlainMoves DEF Exit, Comes, Has
  <2>2. RowFound(t)'
    BY <1>0, <1>7, <2>1, PlainMoves DEF Exit, Comes, Has, RowsFound, RowFound, Using, Writing
  <2> QED
    BY <2>1, <2>2, RowsFoundStays
<1>8. ASSUME NEW t \in Thread, Throw(t) PROVE RowsFound'
  <2>1. OthersStay(t) /\ UNCHANGED label_lookup_
    BY <1>0, <1>8, PlainMoves DEF Throw, Comes, Has
  <2>2. RowFound(t)'
    BY <1>0, <1>8, <2>1, PlainMoves DEF Throw, Comes, Has, RowsFound, RowFound, Using, Writing
  <2> QED
    BY <2>1, <2>2, RowsFoundStays
<1>9. ASSUME NEW t \in Thread, LockLabel(t) PROVE RowsFound'
  <2>1. OthersStay(t) /\ UNCHANGED label_lookup_
    BY <1>0, <1>9, PlainMoves DEF LockLabel, Comes, Has
  <2>2. RowFound(t)'
    BY <1>0, <1>9, <2>1, PlainMoves DEF LockLabel, Comes, Has, RowsFound, RowFound, Using, Writing
  <2> QED
    BY <2>1, <2>2, RowsFoundStays
<1>10. ASSUME NEW t \in Thread, Pop(t) PROVE RowsFound'
  <2>1. OthersStay(t) /\ UNCHANGED label_lookup_
    BY <1>0, <1>10, PopMoves DEF Pop, Comes, Has
  <2>2. RowFound(t)'
    BY <1>0, <1>10, <2>1, PopMoves DEF Pop, Comes, Has, RowsFound, RowFound, Using, Writing
  <2> QED
    BY <2>1, <2>2, RowsFoundStays
<1>11. ASSUME NEW t \in Thread, Relabel(t) PROVE RowsFound'
  <2>1. OthersStay(t) /\ UNCHANGED label_lookup_
    BY <1>0, <1>11, RelabelMoves DEF Relabel, Comes, Has
  <2>2. RowFound(t)'
    BY <1>0, <1>11, <2>1, RelabelMoves DEF Relabel, Comes, Has, RowsFound, RowFound, Using, Writing
  <2> QED
    BY <2>1, <2>2, RowsFoundStays
<1>12. ASSUME NEW t \in Thread, SetLookup(t) PROVE RowsFound'
  <2>1. Comes(t, "unmark") /\ pc[t] = "table"
    BY <1>0, <1>12, PlainMoves DEF SetLookup
  <2>2. RowFound(t)'
    BY <1>12, <2>1, OldLeads DEF Comes, Has, RowFound
  <2>3. ASSUME NEW u \in Thread, u # t PROVE RowFound(u)'
    <3>1. pc'[u] = pc[u] /\ slot'[u] = slot[u] /\ label'[u] = label[u]
      BY <2>1, <2>3 DEF Comes, Has, OthersStay
    <3>2. SUFFICES ASSUME Using(u), pc[u] \notin {"relabel", "table"}
                   PROVE  label_lookup_'[label[u]] = slot[u]
      BY <3>1 DEF RowFound, Using
    <3>3. label_lookup_[label[u]] = slot[u] /\ label[u] \in Label
      BY <1>0, <3>2 DEF RowsFound, RowFound, Places, Idle, Using, Writing
    <3>4. slot[u] # slot[t]
      BY <1>0, <2>1, <2>3, <3>2 DEF OneUser, Using, Writing
    <3>5. label[u] # label[t]
      BY <1>0, <2>1, <2>3, <3>2 DEF LabelsLocked, InAddPoint, Using, Writing
    <3> QED
      BY <1>12, <3>3, <3>4, <3>5, OldLeads
  <2> QED
    BY <2>2, <2>3 DEF RowsFound
<1>13. ASSUME NEW t \in Thread, ClearMark(t) PROVE RowsFound'
  <2>1. OthersStay(t) /\ UNCHANGED label_lookup_
    BY <1>0, <1>13, ClearMarkMoves DEF ClearMark, Comes, Has
  <2>2. RowFound(t)'
    BY <1>0, <1>13, <2>1, ClearMarkMoves DEF ClearMark, Comes, Has, RowsFound, RowFound, Using, Writing
  <2> QED
    BY <2>1, <2>2, RowsFoundStays
<1>21. ASSUME NEW t \in Thread, CountDown(t) PROVE RowsFound'
  <2>1. OthersStay(t) /\ UNCHANGED label_lookup_
    BY <1>0, <1>21, PlainMoves DEF CountDown, Comes, Has
  <2>2. RowFound(t)'
    BY <1>0, <1>21, <2>1, PlainMoves DEF CountDown, Comes, Has, RowsFound, RowFound, Using, Writing
  <2> QED
    BY <2>1, <2>2, RowsFoundStays
<1>14. ASSUME NEW t \in Thread, Unlist(t) PROVE RowsFound'
  <2>1. OthersStay(t) /\ UNCHANGED label_lookup_
    BY <1>0, <1>14, PlainMoves DEF Unlist, Comes, Has
  <2>2. RowFound(t)'
    BY <1>0, <1>14, <2>1, PlainMoves DEF Unlist, Comes, Has, RowsFound, RowFound, Using, Writing
  <2> QED
    BY <2>1, <2>2, RowsFoundStays
<1>15. ASSUME NEW t \in Thread, Lookup(t) PROVE RowsFound'
  <2>1. pc[t] = "lookup" /\ label[t] \in Label
    BY <1>0, <1>15 DEF Lookup, Places, Idle
  <2>2. ASSUME OthersStay(t), pc'[t] = "throw", UNCHANGED label_lookup_ PROVE RowsFound'
    BY <2>2, RowsFoundStays DEF RowFound, Using, Writing
  <2>3. ASSUME Has(t, "found", label[t], vector[t], label_lookup_[label[t]], old[t]),
               UNCHANGED label_lookup_
        PROVE  RowsFound'
    BY <2>3, RowsFoundStays DEF RowFound, Has
  <2>4. ASSUME Has(t, "init", label[t], vector[t], Len(level0) + 1, old[t]),
               label_lookup_'[label[t]] = Len(level0) + 1,
               \A l \in Label : l # label[t] => label_lookup_'[l] = label_lookup_[l],
               NEW u \in Thread
        PROVE  RowFound(u)'
    <3>1. CASE u = t
      BY <2>4, <3>1 DEF Has, RowFound
    <3>2. CASE u # t
      <4>1. Using(u) => label[u] # label[t] /\ label[u] \in Label
        BY <1>0, <2>1, <3>2 DEF LabelsLocked, InAddPoint, Using, Writing, Places, Idle
      <4> QED
        BY <2>4, <3>2, <4>1 DEF RowsFound, RowFound, Has, OthersStay, Using
    <3> QED
      BY <3>1, <3>2
  <2>5. ASSUME Has(t, "init", label[t], vector[t], Len(level0) + 1, old[t]),
               label_lookup_'[label[t]] = Len(level0) + 1,
               \A l \in Label : l # label[t] => label_lookup_'[l] = label_lookup_[l]
        PROVE  RowsFound'
    BY <2>4, <2>5 DEF RowsFound
  <2> QED
    BY <1>0, <1>15, <2>1, <2>2, <2>3, <2>5, LookupMoves DEF Comes, Has
<1>16. ASSUME NEW t \in Thread, Found(t) PROVE RowsFound'
  <2>1. OthersStay(t) /\ UNCHANGED label_lookup_
    BY <1>0, <1>16, PlainMoves DEF Found, Comes, Has
  <2>2. RowFound(t)'
    BY <1>0, <1>16, <2>1, PlainMoves DEF Found, Comes, Has, RowsFound, RowFound, Using, Writing
  <2> QED
    BY <2>1, <2>2, RowsFoundStays
<1>17. ASSUME NEW t \in Thread, InitSlot(t) PROVE RowsFound'
  <2>1. OthersStay(t) /\ UNCHANGED label_lookup_
    BY <1>0, <1>17, PlainMoves DEF InitSlot, Comes, Has
  <2>2. RowFound(t)'
    BY <1>0, <1>17, <2>1, PlainMoves DEF InitSlot, Comes, Has, RowsFound, RowFound, Using, Writing
  <2> QED
    BY <2>1, <2>2, RowsFoundStays
<1>18. ASSUME NEW t \in Thread, WriteData(t) PROVE RowsFound'
  <2>1. OthersStay(t) /\ UNCHANGED label_lookup_
    BY <1>0, <1>18, PlainMoves DEF WriteData, Comes, Has
  <2>2. RowFound(t)'
    BY <1>0, <1>18, <2>1, PlainMoves DEF WriteData, Comes, Has, RowsFound, RowFound, Using, Writing
  <2> QED
    BY <2>1, <2>2, RowsFoundStays
<1>19. ASSUME NEW t \in Thread, Link(t) PROVE RowsFound'
  <2>1. OthersStay(t) /\ UNCHANGED label_lookup_
    BY <1>0, <1>19, PlainMoves DEF Link, Comes, Has
  <2>2. RowFound(t)'
    BY <1>0, <1>19, <2>1, PlainMoves DEF Link, Comes, Has, RowsFound, RowFound, Using, Writing
  <2> QED
    BY <2>1, <2>2, RowsFoundStays
<1>20. ASSUME NEW t \in Thread, LinkThrows(t) PROVE RowsFound'
  <2>1. OthersStay(t) /\ UNCHANGED label_lookup_
    BY <1>0, <1>20, PlainMoves DEF LinkThrows, Comes, Has
  <2>2. RowFound(t)'
    BY <1>0, <1>20, <2>1, PlainMoves DEF LinkThrows, Comes, Has, RowsFound, RowFound, Using, Writing
  <2> QED
    BY <2>1, <2>2, RowsFoundStays
<1> QED
  BY <1>1, <1>2, <1>3, <1>4, <1>5, <1>6, <1>7, <1>8, <1>9, <1>10, <1>11,
     <1>12, <1>13, <1>14, <1>15, <1>16, <1>17, <1>18, <1>19, <1>20, <1>21 DEF Next, Step

(* The labels asked for stay new while no label enters the lookup table.   *)
LEMMA RequestsStay ==
  ASSUME Requests, NEW t \in Thread, OthersStay(t),
         UNCHANGED <<label_lookup_, requested, batch>>,
         IsNew(t)' => IsNew(t),
         ~Idle(t)' => ~Idle(t) /\ label'[t] = label[t]
  PROVE  Requests'
<1>1. \A u \in Thread : ~Idle(u)' => ~Idle(u) /\ label'[u] = label[u]
  BY DEF OthersStay, Idle
<1>2. \A u \in Thread : IsNew(u)' => IsNew(u)
  BY DEF OthersStay, IsNew
<1>3. \A u \in Thread : IsNew(u) => ~Idle(u)
  BY DEF IsNew, Idle
<1>4. \A u \in Thread : IsNew(u)' => ~Idle(u)'
  BY DEF IsNew, Idle
<1> QED
  BY <1>1, <1>2, <1>3, <1>4 DEF Requests

(* A label that enters the table was asked for, and the others stay new.   *)
LEMMA RequestsGrow ==
  ASSUME Requests, NEW t \in Thread, OthersStay(t), UNCHANGED <<requested, batch>>,
         ~Idle(t), ~IsNew(t)', label'[t] = label[t],
         label[t] \in Label, \A u \in Thread : ~Idle(u) => label[u] \in Label,
         \A l \in Label : l # label[t] =>
            label_lookup_'[l] = label_lookup_[l] \/ label_lookup_'[l] = 0
  PROVE  Requests'
<1>1. \A u \in Thread : ~Idle(u)' => ~Idle(u) /\ label'[u] = label[u]
  BY DEF OthersStay, Idle
<1>2. \A u \in Thread : IsNew(u)' => IsNew(u) /\ ~Idle(u) /\ u # t
  BY DEF OthersStay, IsNew, Idle
<1> SUFFICES ASSUME batch = "replace"
             PROVE  /\ \A l \in Label : label_lookup_'[l] # 0 => l \in requested
                    /\ \A u \in Thread : ~Idle(u)' => label'[u] \in requested
                    /\ \A u \in Thread : IsNew(u)' => label_lookup_'[label'[u]] = 0
                    /\ \A u, v \in Thread :
                         u # v /\ ~Idle(u)' /\ ~Idle(v)' => label'[u] # label'[v]
  BY DEF Requests
<1>3. \A l \in Label : label_lookup_'[l] # 0 => l \in requested
  BY DEF Requests
<1>4. \A u \in Thread : ~Idle(u)' => label'[u] \in requested
  BY <1>1 DEF Requests
<1>5. ASSUME NEW u \in Thread, IsNew(u)' PROVE label_lookup_'[label'[u]] = 0
  <2>1. label'[u] = label[u] /\ label[u] # label[t] /\ label[u] \in Label
    BY <1>2, <1>5 DEF Requests, OthersStay
  <2>2. label_lookup_[label[u]] = 0
    BY <1>2, <1>5 DEF Requests
  <2> QED
    BY <2>1, <2>2
<1>6. \A u, v \in Thread : u # v /\ ~Idle(u)' /\ ~Idle(v)' => label'[u] # label'[v]
  BY <1>1 DEF Requests
<1> QED
  BY <1>3, <1>4, <1>5, <1>6

(* With careful callers every action keeps the labels of rows not yet in   *)
(* the table new.                                                          *)
LEMMA RequestsStayNew ==
  ASSUME BatchAssumption, Kept, careful, SlotsFound, RowsFound, Requests,
         [Next]_vars
  PROVE  Requests'
<1> USE DEF config, tables, batches, rows
<1>0. Types /\ ThreadTypes /\ Places /\ OneUser /\ SlotsKept /\ LabelsLocked
  BY DEF Kept
<1>1. CASE UNCHANGED vars
  BY <1>1 DEF vars, Requests, IsNew, Idle
<1>2. ASSUME NEW l \in Label, Mark(l) PROVE Requests'
  BY <1>2 DEF Mark, Requests
<1>3. ASSUME NEW l \in Label, Unmark(l) PROVE Requests'
  BY <1>3 DEF Unmark, Requests
<1>4. ASSUME NEW kind \in {"plain", "replace"}, StartBatch(kind) PROVE Requests'
  BY <1>4 DEF StartBatch, Requests, IsNew, Idle
<1>5. CASE EndBatch
  BY <1>5 DEF EndBatch, Requests
<1>6. ASSUME NEW t \in Thread, Fetch(t) PROVE Requests'
  <2>1. PICK l \in Label, v \in Vector, place \in {"refused", "lock"} :
          /\ CallersPass(l)
          /\ requested' = requested \union {l}
          /\ Has(t, place, l, v, slot[t], old[t])
    BY <1>0, <1>6, FetchMoves
  <2>2. UNCHANGED <<label_lookup_, batch>> /\ Idle(t)
    BY <1>6 DEF Fetch, Idle
  <2> SUFFICES ASSUME batch = "replace"
               PROVE  /\ \A k \in Label : label_lookup_[k] # 0 => k \in requested'
                      /\ \A u \in Thread : ~Idle(u)' => label'[u] \in requested'
                      /\ \A u \in Thread : IsNew(u)' => label_lookup_[label'[u]] = 0
                      /\ \A u, w \in Thread :
                           u # w /\ ~Idle(u)' /\ ~Idle(w)' => label'[u] # label'[w]
    BY <2>2 DEF Requests
  <2>3. l \notin requested /\ label_lookup_[l] = 0
    BY <2>1 DEF CallersPass, Requests
  <2>4. \A u \in Thread : u # t =>
          /\ Idle(u)' <=> Idle(u)
          /\ IsNew(u)' <=> IsNew(u)
          /\ label'[u] = label[u]
    BY <2>1 DEF Has, OthersStay, Idle, IsNew
  <2>5. label'[t] = l
    BY <2>1 DEF Has
  <2>6. \A u \in Thread : IsNew(u) => ~Idle(u)
    BY DEF IsNew, Idle
  <2> QED
    BY <2>1, <2>3, <2>4, <2>5, <2>6 DEF Requests
<1>7. ASSUME NEW t \in Thread, Exit(t) PROVE Requests'
  <2>1. OthersStay(t) /\ UNCHANGED <<label_lookup_, requested, batch>>
    BY <1>0, <1>7, PlainMoves DEF Exit, Comes, Has
  <2>2. /\ IsNew(t)' => IsNew(t)
        /\ ~Idle(t)' => ~Idle(t) /\ label'[t] = label[t]
    BY <1>0, <1>7, <2>1, PlainMoves DEF Exit, Comes, Has, IsNew, Idle
  <2> QED
    BY <2>1, <2>2, RequestsStay
<1>8. ASSUME NEW t \in Thread, Throw(t) PROVE Requests'
  <2>1. OthersStay(t) /\ UNCHANGED <<label_lookup_, requested, batch>>
    BY <1>0, <1>8, PlainMoves DEF Throw, Comes, Has
  <2>2. /\ IsNew(t)' => IsNew(t)
        /\ ~Idle(t)' => ~Idle(t) /\ label'[t] = label[t]
    BY <1>0, <1>8, <2>1, PlainMoves DEF Throw, Comes, Has, IsNew, Idle
  <2> QED
    BY <2>1, <2>2, RequestsStay
<1>9. ASSUME NEW t \in Thread, LockLabel(t) PROVE Requests'
  <2>1. OthersStay(t) /\ UNCHANGED <<label_lookup_, requested, batch>>
    BY <1>0, <1>9, PlainMoves DEF LockLabel, Comes, Has
  <2>2. /\ IsNew(t)' => IsNew(t)
        /\ ~Idle(t)' => ~Idle(t) /\ label'[t] = label[t]
    BY <1>0, <1>9, <2>1, PlainMoves DEF LockLabel, Comes, Has, IsNew, Idle
  <2> QED
    BY <2>1, <2>2, RequestsStay
<1>10. ASSUME NEW t \in Thread, Pop(t) PROVE Requests'
  <2>1. OthersStay(t) /\ UNCHANGED <<label_lookup_, requested, batch>>
    BY <1>0, <1>10, PopMoves DEF Pop, Comes, Has
  <2>2. /\ IsNew(t)' => IsNew(t)
        /\ ~Idle(t)' => ~Idle(t) /\ label'[t] = label[t]
    BY <1>0, <1>10, <2>1, PopMoves DEF Pop, Comes, Has, IsNew, Idle
  <2> QED
    BY <2>1, <2>2, RequestsStay
<1>11. ASSUME NEW t \in Thread, Relabel(t) PROVE Requests'
  <2>1. OthersStay(t) /\ UNCHANGED <<label_lookup_, requested, batch>>
    BY <1>0, <1>11, RelabelMoves DEF Relabel, Comes, Has
  <2>2. /\ IsNew(t)' => IsNew(t)
        /\ ~Idle(t)' => ~Idle(t) /\ label'[t] = label[t]
    BY <1>0, <1>11, <2>1, RelabelMoves DEF Relabel, Comes, Has, IsNew, Idle
  <2> QED
    BY <2>1, <2>2, RequestsStay
<1>12. ASSUME NEW t \in Thread, SetLookup(t) PROVE Requests'
  <2>1. Comes(t, "unmark") /\ UNCHANGED <<requested, batch>> /\ ~Idle(t)
    BY <1>0, <1>12, PlainMoves DEF SetLookup, Idle
  <2>2. \A u \in Thread : ~Idle(u) => label[u] \in Label
    BY <1>0 DEF Places
  <2>3. \A l \in Label : l # label[t] =>
          label_lookup_'[l] = label_lookup_[l] \/ label_lookup_'[l] = 0
    BY <1>12, OldLeads
  <2> QED
    BY <2>1, <2>2, <2>3, RequestsGrow DEF Comes, Has, IsNew
<1>13. ASSUME NEW t \in Thread, ClearMark(t) PROVE Requests'
  <2>1. OthersStay(t) /\ UNCHANGED <<label_lookup_, requested, batch>>
    BY <1>0, <1>13, ClearMarkMoves DEF ClearMark, Comes, Has
  <2>2. /\ IsNew(t)' => IsNew(t)
        /\ ~Idle(t)' => ~Idle(t) /\ label'[t] = label[t]
    BY <1>0, <1>13, <2>1, ClearMarkMoves DEF ClearMark, Comes, Has, IsNew, Idle
  <2> QED
    BY <2>1, <2>2, RequestsStay
<1>21. ASSUME NEW t \in Thread, CountDown(t) PROVE Requests'
  <2>1. OthersStay(t) /\ UNCHANGED <<label_lookup_, requested, batch>>
    BY <1>0, <1>21, PlainMoves DEF CountDown, Comes, Has
  <2>2. /\ IsNew(t)' => IsNew(t)
        /\ ~Idle(t)' => ~Idle(t) /\ label'[t] = label[t]
    BY <1>0, <1>21, <2>1, PlainMoves DEF CountDown, Comes, Has, IsNew, Idle
  <2> QED
    BY <2>1, <2>2, RequestsStay
<1>14. ASSUME NEW t \in Thread, Unlist(t) PROVE Requests'
  <2>1. OthersStay(t) /\ UNCHANGED <<label_lookup_, requested, batch>>
    BY <1>0, <1>14, PlainMoves DEF Unlist, Comes, Has
  <2>2. /\ IsNew(t)' => IsNew(t)
        /\ ~Idle(t)' => ~Idle(t) /\ label'[t] = label[t]
    BY <1>0, <1>14, <2>1, PlainMoves DEF Unlist, Comes, Has, IsNew, Idle
  <2> QED
    BY <2>1, <2>2, RequestsStay
<1>15. ASSUME NEW t \in Thread, Lookup(t) PROVE Requests'
  <2>1. pc[t] = "lookup" /\ label[t] \in Label /\ ~Idle(t)
    BY <1>0, <1>15 DEF Lookup, Places, Idle
  <2>2. UNCHANGED <<requested, batch>>
    BY <1>15 DEF Lookup
  <2>3. \A u \in Thread : ~Idle(u) => label[u] \in Label
    BY <1>0 DEF Places
  <2>4. OthersStay(t) /\ label'[t] = label[t] /\ ~IsNew(t)'
    BY <1>0, <1>15, <2>1, LookupMoves DEF Comes, Has, IsNew
  <2>5. \A l \in Label : l # label[t] => label_lookup_'[l] = label_lookup_[l]
    BY <1>0, <1>15, <2>1, LookupMoves
  <2> QED
    BY <2>1, <2>2, <2>3, <2>4, <2>5, RequestsGrow
<1>16. ASSUME NEW t \in Thread, Found(t) PROVE Requests'
  <2>1. OthersStay(t) /\ UNCHANGED <<label_lookup_, requested, batch>>
    BY <1>0, <1>16, PlainMoves DEF Found, Comes, Has
  <2>2. /\ IsNew(t)' => IsNew(t)
        /\ ~Idle(t)' => ~Idle(t) /\ label'[t] = label[t]
    BY <1>0, <1>16, <2>1, PlainMoves DEF Found, Comes, Has, IsNew, Idle
  <2> QED
    BY <2>1, <2>2, RequestsStay
<1>17. ASSUME NEW t \in Thread, InitSlot(t) PROVE Requests'
  <2>1. OthersStay(t) /\ UNCHANGED <<label_lookup_, requested, batch>>
    BY <1>0, <1>17, PlainMoves DEF InitSlot, Comes, Has
  <2>2. /\ IsNew(t)' => IsNew(t)
        /\ ~Idle(t)' => ~Idle(t) /\ label'[t] = label[t]
    BY <1>0, <1>17, <2>1, PlainMoves DEF InitSlot, Comes, Has, IsNew, Idle
  <2> QED
    BY <2>1, <2>2, RequestsStay
<1>18. ASSUME NEW t \in Thread, WriteData(t) PROVE Requests'
  <2>1. OthersStay(t) /\ UNCHANGED <<label_lookup_, requested, batch>>
    BY <1>0, <1>18, PlainMoves DEF WriteData, Comes, Has
  <2>2. /\ IsNew(t)' => IsNew(t)
        /\ ~Idle(t)' => ~Idle(t) /\ label'[t] = label[t]
    BY <1>0, <1>18, <2>1, PlainMoves DEF WriteData, Comes, Has, IsNew, Idle
  <2> QED
    BY <2>1, <2>2, RequestsStay
<1>19. ASSUME NEW t \in Thread, Link(t) PROVE Requests'
  <2>1. OthersStay(t) /\ UNCHANGED <<label_lookup_, requested, batch>>
    BY <1>0, <1>19, PlainMoves DEF Link, Comes, Has
  <2>2. /\ IsNew(t)' => IsNew(t)
        /\ ~Idle(t)' => ~Idle(t) /\ label'[t] = label[t]
    BY <1>0, <1>19, <2>1, PlainMoves DEF Link, Comes, Has, IsNew, Idle
  <2> QED
    BY <2>1, <2>2, RequestsStay
<1>20. ASSUME NEW t \in Thread, LinkThrows(t) PROVE Requests'
  <2>1. OthersStay(t) /\ UNCHANGED <<label_lookup_, requested, batch>>
    BY <1>0, <1>20, PlainMoves DEF LinkThrows, Comes, Has
  <2>2. /\ IsNew(t)' => IsNew(t)
        /\ ~Idle(t)' => ~Idle(t) /\ label'[t] = label[t]
    BY <1>0, <1>20, <2>1, PlainMoves DEF LinkThrows, Comes, Has, IsNew, Idle
  <2> QED
    BY <2>1, <2>2, RequestsStay
<1> QED
  BY <1>1, <1>2, <1>3, <1>4, <1>5, <1>6, <1>7, <1>8, <1>9, <1>10, <1>11,
     <1>12, <1>13, <1>14, <1>15, <1>16, <1>17, <1>18, <1>19, <1>20, <1>21 DEF Next, Step

-----------------------------------------------------------------------------
(* What finished rows left.  A label shows it unless a thread has begun to *)
(* write that label's row.                                                 *)

Seen(l) ==
  IF label_lookup_[l] = 0
    THEN [present |-> FALSE]
    ELSE [present |-> TRUE, data |-> level0[label_lookup_[l]].data,
          deleted |-> level0[label_lookup_[l]].deleted]

InProgress(l) == \E t \in Thread : Updating(t) /\ label[t] = l

RowsKept ==
  /\ \A l \in Label : ~InProgress(l) => Seen(l) = landed[l]
  /\ \A t \in Thread : pc[t] = "link" => level0[slot[t]].data = vector[t]

LandedType == landed \in [Label -> Shown]

LEMMA SeenIsVisible ==
  ASSUME NEW l \in Label
  PROVE  /\ Table!Visible(label_lookup_, level0)[l] = Seen(l)
         /\ Table!Visible(label_lookup_', level0')[l] = Seen(l)'
BY DEF Table!Visible, Seen

(* Only the label of its thread leads to a slot that is being written.     *)
LEMMA OnlyOwnLabel ==
  ASSUME BatchAssumption, Kept, NEW t \in Thread, Updating(t), NEW l \in Label,
         label_lookup_[l] # 0, label_lookup_[l] = slot[t]
  PROVE  l = label[t]
<1>1. Using(t) /\ pc[t] \notin {"relabel", "table"}
  BY DEF Updating, Using, Writing
<1>2. \A u \in Thread : u # t => ~Between(u, l, slot[t])
  BY <1>1 DEF Kept, OneUser, Between, Using, Writing
<1>3. level0[slot[t]].label = l \/ Between(t, l, slot[t])
  BY <1>2 DEF Kept, LookupsKept
<1>4. CASE Between(t, l, slot[t])
  BY <1>1, <1>4 DEF Between
<1>5. CASE level0[slot[t]].label = l /\ pc[t] # "init"
  BY <1>1, <1>5 DEF Kept, SlotsKept, SlotOf
<1>6. CASE level0[slot[t]].label = l /\ pc[t] = "init"
  <2>1. level0[slot[t]] = Blank
    BY <1>6 DEF Kept, SlotsKept, SlotOf
  <2>2. Blank.label \notin Label
    BY DEF Blank, NoLabel, BatchAssumption
  <2> QED
    BY <1>6, <2>1, <2>2
<1> QED
  BY <1>3, <1>4, <1>5, <1>6

(* Steps that leave every vector and mark, and what landed.                *)
LEMMA RowsStay ==
  ASSUME Types, Kept, RowsKept, NEW t \in Thread, OthersStay(t),
         UNCHANGED <<label_lookup_, landed>>,
         \A r \in 1..Len(level0) : /\ level0'[r].data = level0[r].data
                                   /\ level0'[r].deleted = level0[r].deleted,
         Updating(t) => Updating(t)' /\ label'[t] = label[t],
         pc'[t] = "link" => level0'[slot'[t]].data = vector'[t]
  PROVE  RowsKept'
<1>1. ASSUME NEW l \in Label, ~InProgress(l)' PROVE Seen(l)' = landed'[l]
  <2>1. ~InProgress(l)
    BY <1>1 DEF InProgress, OthersStay, Updating
  <2>2. label_lookup_[l] \in 0..Len(level0) /\ Len(level0) \in Nat
    BY DEF Types
  <2>3. label_lookup_[l] # 0 =>
          /\ level0'[label_lookup_[l]].data = level0[label_lookup_[l]].data
          /\ level0'[label_lookup_[l]].deleted = level0[label_lookup_[l]].deleted
    BY <2>2
  <2>4. Seen(l)' = Seen(l)
    BY <2>3 DEF Seen
  <2> QED
    BY <2>1, <2>4 DEF RowsKept
<1>2. ASSUME NEW u \in Thread, pc'[u] = "link", u # t
      PROVE  level0'[slot'[u]].data = vector'[u]
  <2>1. pc[u] = "link" /\ slot'[u] = slot[u] /\ vector'[u] = vector[u]
    BY <1>2 DEF OthersStay
  <2>2. slot[u] \in 1..Len(level0)
    BY <2>1, UsedSlot DEF Using, Writing
  <2> QED
    BY <2>1, <2>2 DEF RowsKept
<1> QED
  BY <1>1, <1>2 DEF RowsKept

(* A thread writes the slot of its row: no other label shows it.           *)
LEMMA OwnRow ==
  ASSUME BatchAssumption, Kept, RowsKept, NEW t \in Thread, Updating(t),
         NEW entry, Writes(slot[t], entry),
         OthersStay(t), UNCHANGED <<label_lookup_, landed>>,
         Updating(t)' /\ label'[t] = label[t],
         pc'[t] = "link" => level0'[slot'[t]].data = vector'[t]
  PROVE  RowsKept'
<1>1. ASSUME NEW l \in Label, ~InProgress(l)' PROVE Seen(l)' = landed'[l]
  <2>1. ~InProgress(l) /\ l # label[t]
    BY <1>1 DEF InProgress, OthersStay, Updating
  <2>2. label_lookup_[l] \in 0..Len(level0) /\ Len(level0) \in Nat
    BY DEF Kept, Types
  <2>3. label_lookup_[l] # 0 => label_lookup_[l] # slot[t]
    BY <2>1, OnlyOwnLabel
  <2>4. label_lookup_[l] # 0 => level0'[label_lookup_[l]] = level0[label_lookup_[l]]
    BY <2>2, <2>3 DEF Writes
  <2>5. Seen(l)' = Seen(l)
    BY <2>4 DEF Seen
  <2> QED
    BY <2>1, <2>5 DEF RowsKept
<1>2. ASSUME NEW u \in Thread, pc'[u] = "link", u # t
      PROVE  level0'[slot'[u]].data = vector'[u]
  <2>1. pc[u] = "link" /\ slot'[u] = slot[u] /\ vector'[u] = vector[u]
    BY <1>2 DEF OthersStay
  <2>2. slot[u] \in 1..Len(level0)
    BY <2>1, UsedSlot DEF Using, Writing
  <2>3. slot[u] # slot[t]
    BY <1>2, <2>1 DEF Kept, OneUser, Using, Updating, Writing
  <2> QED
    BY <2>1, <2>2, <2>3 DEF RowsKept, Writes
<1> QED
  BY <1>1, <1>2 DEF RowsKept

(* With careful callers every action keeps what finished rows left.        *)
LEMMA RowsStayKept ==
  ASSUME BatchAssumption, Kept, careful, SlotsFound, RowsFound, Requests,
         LandedType, RowsKept, [Next]_vars
  PROVE  RowsKept'
<1> USE DEF config, tables, batches, rows
<1>0. Types /\ ThreadTypes /\ Places /\ SlotsKept /\ Kept /\ LandedType
  BY DEF Kept
<1>1. CASE UNCHANGED vars
  BY <1>1 DEF vars, RowsKept, InProgress, Updating, Seen
<1>2. ASSUME NEW l \in Label, Mark(l) PROVE RowsKept'
  <2> DEFINE s == label_lookup_[l]
  <2>1. batch = "none" /\ s # 0 /\ UNCHANGED <<label_lookup_, rows>>
    BY <1>2 DEF Mark
  <2>2. /\ \A t \in Thread : pc[t] = "exited"
        /\ s \in 1..Len(level0) /\ level0[s].label = l
    BY <2>1, BetweenBatches
  <2>3. Writes(s, [label |-> l, data |-> level0[s].data, deleted |-> TRUE])
    BY <1>2, <2>1, MarkWrites DEF Mark, Table!MarkDeletedInternal
  <2>4. landed' = [landed EXCEPT ![l] = Seen(l)']
    BY <1>2, <2>1, SeenIsVisible DEF Mark
  <2>5. ASSUME NEW k \in Label PROVE Seen(k)' = landed'[k]
    <3>1. CASE k = l
      BY <1>0, <2>4, <3>1 DEF LandedType
    <3>2. CASE k # l
      <4>1. label_lookup_[k] # 0 => /\ label_lookup_[k] \in 1..Len(level0)
                                   /\ level0[label_lookup_[k]].label = k
        BY <2>1, BetweenBatches
      <4>2. label_lookup_[k] # 0 => level0'[label_lookup_[k]] = level0[label_lookup_[k]]
        BY <2>2, <2>3, <3>2, <4>1 DEF Writes
      <4>3. Seen(k)' = Seen(k)
        BY <2>1, <4>2 DEF Seen
      <4>4. ~InProgress(k)
        BY <2>2 DEF InProgress, Updating
      <4> QED
        BY <1>0, <2>4, <3>2, <4>3, <4>4 DEF LandedType, RowsKept
    <3> QED
      BY <3>1, <3>2
  <2> QED
    BY <2>1, <2>2, <2>5 DEF RowsKept
<1>3. ASSUME NEW l \in Label, Unmark(l) PROVE RowsKept'
  <2> DEFINE s == label_lookup_[l]
  <2>1. batch = "none" /\ s # 0 /\ UNCHANGED <<label_lookup_, rows>>
    BY <1>3 DEF Unmark
  <2>2. /\ \A t \in Thread : pc[t] = "exited"
        /\ s \in 1..Len(level0) /\ level0[s].label = l
    BY <2>1, BetweenBatches
  <2>3. Writes(s, [label |-> l, data |-> level0[s].data, deleted |-> FALSE])
    BY <1>3, <2>1, MarkWrites DEF Unmark, Table!UnmarkDeletedInternal
  <2>4. landed' = [landed EXCEPT ![l] = Seen(l)']
    BY <1>3, <2>1, SeenIsVisible DEF Unmark
  <2>5. ASSUME NEW k \in Label PROVE Seen(k)' = landed'[k]
    <3>1. CASE k = l
      BY <1>0, <2>4, <3>1 DEF LandedType
    <3>2. CASE k # l
      <4>1. label_lookup_[k] # 0 => /\ label_lookup_[k] \in 1..Len(level0)
                                   /\ level0[label_lookup_[k]].label = k
        BY <2>1, BetweenBatches
      <4>2. label_lookup_[k] # 0 => level0'[label_lookup_[k]] = level0[label_lookup_[k]]
        BY <2>2, <2>3, <3>2, <4>1 DEF Writes
      <4>3. Seen(k)' = Seen(k)
        BY <2>1, <4>2 DEF Seen
      <4>4. ~InProgress(k)
        BY <2>2 DEF InProgress, Updating
      <4> QED
        BY <1>0, <2>4, <3>2, <4>3, <4>4 DEF LandedType, RowsKept
    <3> QED
      BY <3>1, <3>2
  <2> QED
    BY <2>1, <2>2, <2>5 DEF RowsKept
<1>4. ASSUME NEW kind \in {"plain", "replace"}, StartBatch(kind) PROVE RowsKept'
  <2>1. \A t \in Thread : ~Updating(t) /\ ~Updating(t)' /\ pc'[t] # "link"
    BY <1>0, <1>4 DEF StartBatch, Places, Updating
  <2> QED
    BY <1>4, <2>1 DEF StartBatch, RowsKept, InProgress, Seen
<1>5. CASE EndBatch
  BY <1>5 DEF EndBatch, RowsKept, InProgress, Updating, Seen
<1>6. ASSUME NEW t \in Thread, Fetch(t) PROVE RowsKept'
  <2>1. /\ OthersStay(t)
        /\ Updating(t) => Updating(t)' /\ label'[t] = label[t]
        /\ pc'[t] # "link"
    BY <1>0, <1>6, FetchMoves DEF Fetch, Comes, Has, Updating
  <2>2. UNCHANGED <<level0, label_lookup_, landed>>
    BY <1>6 DEF Fetch
  <2> QED
    BY <1>0, <2>1, <2>2, RowsStay
<1>7. ASSUME NEW t \in Thread, Exit(t) PROVE RowsKept'
  <2>1. /\ OthersStay(t)
        /\ Updating(t) => Updating(t)' /\ label'[t] = label[t]
        /\ pc'[t] # "link"
    BY <1>0, <1>7, PlainMoves DEF Exit, Comes, Has, Updating
  <2>2. UNCHANGED <<level0, label_lookup_, landed>>
    BY <1>7 DEF Exit
  <2> QED
    BY <1>0, <2>1, <2>2, RowsStay
<1>8. ASSUME NEW t \in Thread, Throw(t) PROVE RowsKept'
  <2>1. /\ OthersStay(t)
        /\ Updating(t) => Updating(t)' /\ label'[t] = label[t]
        /\ pc'[t] # "link"
    BY <1>0, <1>8, PlainMoves DEF Throw, Comes, Has, Updating
  <2>2. UNCHANGED <<level0, label_lookup_, landed>>
    BY <1>8 DEF Throw
  <2> QED
    BY <1>0, <2>1, <2>2, RowsStay
<1>9. ASSUME NEW t \in Thread, LockLabel(t) PROVE RowsKept'
  <2>1. /\ OthersStay(t)
        /\ Updating(t) => Updating(t)' /\ label'[t] = label[t]
        /\ pc'[t] # "link"
    BY <1>0, <1>9, PlainMoves DEF LockLabel, Comes, Has, Updating
  <2>2. UNCHANGED <<level0, label_lookup_, landed>>
    BY <1>9 DEF LockLabel
  <2> QED
    BY <1>0, <2>1, <2>2, RowsStay
<1>10. ASSUME NEW t \in Thread, Pop(t) PROVE RowsKept'
  <2>1. /\ OthersStay(t)
        /\ Updating(t) => Updating(t)' /\ label'[t] = label[t]
        /\ pc'[t] # "link"
    BY <1>0, <1>10, PopMoves DEF Pop, Comes, Has, Updating
  <2>2. UNCHANGED <<level0, label_lookup_, landed>>
    BY <1>10 DEF Pop
  <2> QED
    BY <1>0, <2>1, <2>2, RowsStay
<1>11. ASSUME NEW t \in Thread, Relabel(t) PROVE RowsKept'
  <2> DEFINE entry == [label |-> label[t], data |-> level0[slot[t]].data, deleted |-> TRUE]
  <2>1. /\ slot[t] \in 1..Len(level0)
        /\ Writes(slot[t], entry)
        /\ level0[slot[t]].deleted = TRUE
    BY <1>0, <1>11, RelabelWrites, EntryFacts DEF Types
  <2>2. \A r \in 1..Len(level0) : /\ level0'[r].data = level0[r].data
                                  /\ level0'[r].deleted = level0[r].deleted
    <3>1. entry.data = level0[slot[t]].data /\ entry.deleted = TRUE
      OBVIOUS
    <3> HIDE DEF entry
    <3> QED
      BY <2>1, <3>1 DEF Writes
  <2>3. OthersStay(t) /\ ~Updating(t) /\ pc'[t] # "link"
    BY <1>0, <1>11, RelabelMoves DEF Relabel, Has, Updating
  <2>4. UNCHANGED <<label_lookup_, landed>>
    BY <1>11 DEF Relabel
  <2> QED
    BY <1>0, <2>2, <2>3, <2>4, RowsStay
<1>12. ASSUME NEW t \in Thread, SetLookup(t) PROVE RowsKept'
  <2>1. Comes(t, "unmark") /\ UNCHANGED level0 /\ pc[t] = "table"
    BY <1>0, <1>12, PlainMoves DEF SetLookup
  <2>2. landed' = [landed EXCEPT ![old[t]] = [present |-> FALSE]]
    BY <1>12 DEF SetLookup
  <2>3. ASSUME NEW l \in Label, ~InProgress(l)' PROVE Seen(l)' = landed'[l]
    <3>1. l # label[t]
      BY <2>1, <2>3 DEF InProgress, Comes, Has, Updating
    <3>2. CASE l = old[t]
      <4>1. label_lookup_'[l] = 0
        BY <1>12, <3>2, OldLeads
      <4>2. landed'[l] = [present |-> FALSE]
        BY <1>0, <2>2, <3>2 DEF LandedType
      <4> QED
        BY <4>1, <4>2 DEF Seen
    <3>3. CASE l # old[t]
      <4>1. label_lookup_'[l] = label_lookup_[l]
        BY <1>12, <3>1, <3>3, OldLeads
      <4>2. landed'[l] = landed[l]
        BY <1>0, <2>2, <3>3 DEF LandedType
      <4>3. ~InProgress(l)
        BY <2>1, <2>3 DEF InProgress, Comes, Has, OthersStay, Updating
      <4> QED
        BY <2>1, <4>1, <4>2, <4>3 DEF Seen, RowsKept
    <3> QED
      BY <3>2, <3>3
  <2>4. \A u \in Thread : pc'[u] = "link" => level0'[slot'[u]].data = vector'[u]
    BY <2>1 DEF RowsKept, Comes, Has, OthersStay
  <2> QED
    BY <2>3, <2>4 DEF RowsKept
<1>13. ASSUME NEW t \in Thread, ClearMark(t) PROVE RowsKept'
  <2> DEFINE entry == [label |-> label[t], data |-> level0[slot[t]].data, deleted |-> FALSE]
  <2>1. Writes(slot[t], entry)
    BY <1>13, ClearMarkWrites
  <2>2. /\ OthersStay(t)
        /\ Updating(t) /\ Updating(t)' /\ label'[t] = label[t]
        /\ pc'[t] = "link" => slot'[t] = slot[t] /\ vector'[t] = vector[t]
    BY <1>0, <1>13, ClearMarkMoves DEF ClearMark, Comes, Has, Updating
  <2>3. UNCHANGED <<label_lookup_, landed>>
    BY <1>13 DEF ClearMark
  <2>4. pc'[t] = "link" => level0'[slot'[t]].data = vector'[t]
    BY <1>13, ClearMarkMoves DEF Comes, Has
  <2> HIDE DEF entry
  <2> QED
    BY <1>0, <2>1, <2>2, <2>3, <2>4, OwnRow
<1>21. ASSUME NEW t \in Thread, CountDown(t) PROVE RowsKept'
  <2>1. /\ OthersStay(t)
        /\ Updating(t) => Updating(t)' /\ label'[t] = label[t]
        /\ pc'[t] # "link"
    BY <1>0, <1>21, PlainMoves DEF CountDown, Comes, Has, Updating
  <2>2. UNCHANGED <<level0, label_lookup_, landed>>
    BY <1>21 DEF CountDown
  <2> QED
    BY <1>0, <2>1, <2>2, RowsStay
<1>14. ASSUME NEW t \in Thread, Unlist(t) PROVE RowsKept'
  <2>1. /\ OthersStay(t)
        /\ Updating(t) => Updating(t)' /\ label'[t] = label[t]
        /\ pc'[t] # "link"
    BY <1>0, <1>14, PlainMoves DEF Unlist, Comes, Has, Updating
  <2>2. UNCHANGED <<level0, label_lookup_, landed>>
    BY <1>14 DEF Unlist
  <2> QED
    BY <1>0, <2>1, <2>2, RowsStay
<1>15. ASSUME NEW t \in Thread, Lookup(t) PROVE RowsKept'
  <2>1. pc[t] = "lookup" /\ label[t] \in Label /\ UNCHANGED landed
    BY <1>0, <1>15 DEF Lookup, Places, Idle
  <2>2. ASSUME OthersStay(t), pc'[t] # "link", UNCHANGED <<level0, label_lookup_>>
        PROVE  RowsKept'
    BY <1>0, <2>1, <2>2, RowsStay DEF Updating
  <2>3. ASSUME Has(t, "init", label[t], vector[t], Len(level0) + 1, old[t]),
               level0' = Append(level0, Blank),
               \A l \in Label : l # label[t] => label_lookup_'[l] = label_lookup_[l]
        PROVE  RowsKept'
    <3>1. \A r \in 1..Len(level0) : level0'[r] = level0[r]
      BY <1>0, <2>3, AppendFacts DEF Types
    <3>2. ASSUME NEW l \in Label, ~InProgress(l)' PROVE Seen(l)' = landed'[l]
      <4>1. l # label[t] /\ ~InProgress(l)
        BY <2>1, <2>3, <3>2 DEF InProgress, Has, OthersStay, Updating
      <4>2. label_lookup_[l] \in 0..Len(level0) /\ Len(level0) \in Nat
        BY <1>0 DEF Types
      <4>3. label_lookup_'[l] = label_lookup_[l]
        BY <2>3, <4>1
      <4>4. label_lookup_[l] # 0 => level0'[label_lookup_[l]] = level0[label_lookup_[l]]
        BY <3>1, <4>2
      <4>5. Seen(l)' = Seen(l)
        BY <4>3, <4>4 DEF Seen
      <4> QED
        BY <2>1, <4>1, <4>5 DEF RowsKept
    <3>3. ASSUME NEW u \in Thread, pc'[u] = "link"
          PROVE  level0'[slot'[u]].data = vector'[u]
      <4>1. pc[u] = "link" /\ slot'[u] = slot[u] /\ vector'[u] = vector[u]
        BY <2>3, <3>3 DEF Has, OthersStay
      <4>2. slot[u] \in 1..Len(level0)
        BY <4>1, UsedSlot DEF Using, Writing
      <4> QED
        BY <3>1, <4>1, <4>2 DEF RowsKept
    <3> QED
      BY <3>2, <3>3 DEF RowsKept
  <2> QED
    BY <1>0, <1>15, <2>1, <2>2, <2>3, LookupMoves DEF Comes, Has
<1>16. ASSUME NEW t \in Thread, Found(t) PROVE RowsKept'
  <2>1. /\ OthersStay(t)
        /\ Updating(t) => Updating(t)' /\ label'[t] = label[t]
        /\ pc'[t] # "link"
    BY <1>0, <1>16, PlainMoves DEF Found, Comes, Has, Updating
  <2>2. UNCHANGED <<level0, label_lookup_, landed>>
    BY <1>16 DEF Found
  <2> QED
    BY <1>0, <2>1, <2>2, RowsStay
<1>17. ASSUME NEW t \in Thread, InitSlot(t) PROVE RowsKept'
  <2> DEFINE entry == [label |-> label[t], data |-> vector[t], deleted |-> FALSE]
  <2>1. Writes(slot[t], entry)
    BY <1>17, InitSlotWrites
  <2>2. /\ OthersStay(t)
        /\ Updating(t) /\ Updating(t)' /\ label'[t] = label[t]
        /\ pc'[t] = "link" => slot'[t] = slot[t] /\ vector'[t] = vector[t]
    BY <1>0, <1>17, PlainMoves DEF InitSlot, Comes, Has, Updating
  <2>3. UNCHANGED <<label_lookup_, landed>>
    BY <1>17 DEF InitSlot
  <2>4. pc'[t] = "link" => level0'[slot'[t]].data = vector'[t]
    BY <2>1, <2>2 DEF Writes
  <2> HIDE DEF entry
  <2> QED
    BY <1>0, <2>1, <2>2, <2>3, <2>4, OwnRow
<1>18. ASSUME NEW t \in Thread, WriteData(t) PROVE RowsKept'
  <2> DEFINE entry == [label |-> label[t], data |-> vector[t], deleted |-> FALSE]
  <2>1. Writes(slot[t], entry)
    BY <1>18, WriteDataWrites
  <2>2. /\ OthersStay(t)
        /\ Updating(t) /\ Updating(t)' /\ label'[t] = label[t]
        /\ pc'[t] = "link" => slot'[t] = slot[t] /\ vector'[t] = vector[t]
    BY <1>0, <1>18, PlainMoves DEF WriteData, Comes, Has, Updating
  <2>3. UNCHANGED <<label_lookup_, landed>>
    BY <1>18 DEF WriteData
  <2>4. pc'[t] = "link" => level0'[slot'[t]].data = vector'[t]
    BY <2>1, <2>2 DEF Writes
  <2> HIDE DEF entry
  <2> QED
    BY <1>0, <2>1, <2>2, <2>3, <2>4, OwnRow
<1>19. ASSUME NEW t \in Thread, Link(t) PROVE RowsKept'
  <2> DEFINE s == slot[t]
  <2>1. pc[t] = "link" /\ UNCHANGED <<level0, label_lookup_>>
    BY <1>19 DEF Link
  <2>2. \E place \in {"fetch", "exited"} : Has(t, place, NoLabel, NoLabel, 0, NoLabel)
    BY <1>0, <1>19, PlainMoves
  <2>3. label[t] \in Label /\ s \in 1..Len(level0) /\ s # 0
    BY <1>0, <2>1, UsedSlot DEF Places, Idle, Using, Writing
  <2>4. landed' = [landed EXCEPT ![label[t]] =
                     [present |-> TRUE, data |-> vector[t], deleted |-> FALSE]]
    BY <1>19 DEF Link
  <2>5. ASSUME NEW l \in Label, ~InProgress(l)' PROVE Seen(l)' = landed'[l]
    <3>1. CASE l = label[t]
      <4>1. label_lookup_[l] = s
        BY <2>1, <3>1 DEF RowsFound, RowFound, Using, Writing
      <4>2. level0[s].data = vector[t] /\ level0[s].deleted = FALSE
        BY <1>0, <2>1, <2>3, EntryFacts DEF RowsKept, SlotsKept, SlotOf, Types
      <4>3. Seen(l)' = [present |-> TRUE, data |-> vector[t], deleted |-> FALSE]
        BY <2>1, <2>3, <4>1, <4>2 DEF Seen
      <4> QED
        BY <1>0, <2>4, <3>1, <4>3 DEF LandedType
    <3>2. CASE l # label[t]
      <4>1. ~InProgress(l)
        BY <2>2, <2>5, <3>2 DEF InProgress, Has, OthersStay, Updating
      <4>2. landed'[l] = landed[l]
        BY <1>0, <2>4, <3>2 DEF LandedType
      <4> QED
        BY <2>1, <4>1, <4>2 DEF RowsKept, Seen
    <3> QED
      BY <3>1, <3>2
  <2>6. \A u \in Thread : pc'[u] = "link" => level0'[slot'[u]].data = vector'[u]
    BY <2>1, <2>2 DEF RowsKept, Has, OthersStay
  <2> QED
    BY <2>5, <2>6 DEF RowsKept
<1>20. ASSUME NEW t \in Thread, LinkThrows(t) PROVE RowsKept'
  <2> DEFINE s == slot[t]
  <2>1. pc[t] = "link" /\ UNCHANGED <<level0, label_lookup_>>
    BY <1>20 DEF LinkThrows
  <2>2. \E place \in {"fetch", "exited"} : Has(t, place, NoLabel, NoLabel, 0, NoLabel)
    BY <1>0, <1>20, PlainMoves
  <2>3. label[t] \in Label /\ s \in 1..Len(level0) /\ s # 0
    BY <1>0, <2>1, UsedSlot DEF Places, Idle, Using, Writing
  <2>4. landed' = [landed EXCEPT ![label[t]] =
                     [present |-> TRUE, data |-> vector[t], deleted |-> FALSE]]
    BY <1>20 DEF LinkThrows
  <2>5. ASSUME NEW l \in Label, ~InProgress(l)' PROVE Seen(l)' = landed'[l]
    <3>1. CASE l = label[t]
      <4>1. label_lookup_[l] = s
        BY <2>1, <3>1 DEF RowsFound, RowFound, Using, Writing
      <4>2. level0[s].data = vector[t] /\ level0[s].deleted = FALSE
        BY <1>0, <2>1, <2>3, EntryFacts DEF RowsKept, SlotsKept, SlotOf, Types
      <4>3. Seen(l)' = [present |-> TRUE, data |-> vector[t], deleted |-> FALSE]
        BY <2>1, <2>3, <4>1, <4>2 DEF Seen
      <4> QED
        BY <1>0, <2>4, <3>1, <4>3 DEF LandedType
    <3>2. CASE l # label[t]
      <4>1. ~InProgress(l)
        BY <2>2, <2>5, <3>2 DEF InProgress, Has, OthersStay, Updating
      <4>2. landed'[l] = landed[l]
        BY <1>0, <2>4, <3>2 DEF LandedType
      <4> QED
        BY <2>1, <4>1, <4>2 DEF RowsKept, Seen
    <3> QED
      BY <3>1, <3>2
  <2>6. \A u \in Thread : pc'[u] = "link" => level0'[slot'[u]].data = vector'[u]
    BY <2>1, <2>2 DEF RowsKept, Has, OthersStay
  <2> QED
    BY <2>5, <2>6 DEF RowsKept
<1> QED
  BY <1>1, <1>2, <1>3, <1>4, <1>5, <1>6, <1>7, <1>8, <1>9, <1>10, <1>11,
     <1>12, <1>13, <1>14, <1>15, <1>16, <1>17, <1>18, <1>19, <1>20, <1>21 DEF Next, Step

(* What is remembered of finished rows is what the table can show.         *)
LEMMA LandedTypeStays ==
  ASSUME BatchAssumption, Kept, LandedType, [Next]_vars
  PROVE  LandedType'
<1> USE DEF config, tables, batches, rows
<1>1. CASE UNCHANGED vars
  BY <1>1 DEF vars, LandedType
<1>2. ASSUME NEW l \in Label, Mark(l) PROVE LandedType'
  <2> DEFINE s == label_lookup_[l]
  <2>1. batch = "none" /\ s # 0 /\ UNCHANGED label_lookup_
    BY <1>2 DEF Mark
  <2>2. level0[s].data \in Vector
    BY <2>1, BetweenBatches
  <2>3. Writes(s, [label |-> l, data |-> level0[s].data, deleted |-> TRUE])
    BY <1>2, <2>1, MarkWrites DEF Mark, Table!MarkDeletedInternal
  <2>4. Seen(l)' \in Shown
    BY <2>1, <2>2, <2>3 DEF Seen, Shown, Writes
  <2>5. landed' = [landed EXCEPT ![l] = Seen(l)']
    BY <1>2, <2>1, SeenIsVisible DEF Mark
  <2> QED
    BY <2>4, <2>5 DEF LandedType
<1>3. ASSUME NEW l \in Label, Unmark(l) PROVE LandedType'
  <2> DEFINE s == label_lookup_[l]
  <2>1. batch = "none" /\ s # 0 /\ UNCHANGED label_lookup_
    BY <1>3 DEF Unmark
  <2>2. level0[s].data \in Vector
    BY <2>1, BetweenBatches
  <2>3. Writes(s, [label |-> l, data |-> level0[s].data, deleted |-> FALSE])
    BY <1>3, <2>1, MarkWrites DEF Unmark, Table!UnmarkDeletedInternal
  <2>4. Seen(l)' \in Shown
    BY <2>1, <2>2, <2>3 DEF Seen, Shown, Writes
  <2>5. landed' = [landed EXCEPT ![l] = Seen(l)']
    BY <1>3, <2>1, SeenIsVisible DEF Unmark
  <2> QED
    BY <2>4, <2>5 DEF LandedType
<1>4. ASSUME NEW kind \in {"plain", "replace"}, StartBatch(kind) PROVE LandedType'
  BY <1>4 DEF StartBatch, LandedType
<1>5. CASE EndBatch
  BY <1>5 DEF EndBatch, LandedType
<1>6. ASSUME NEW t \in Thread, Fetch(t) PROVE LandedType'
  BY <1>6 DEF Fetch, LandedType
<1>7. ASSUME NEW t \in Thread, Exit(t) PROVE LandedType'
  BY <1>7 DEF Exit, LandedType
<1>8. ASSUME NEW t \in Thread, Throw(t) PROVE LandedType'
  BY <1>8 DEF Throw, LandedType
<1>9. ASSUME NEW t \in Thread, LockLabel(t) PROVE LandedType'
  BY <1>9 DEF LockLabel, LandedType
<1>10. ASSUME NEW t \in Thread, Pop(t) PROVE LandedType'
  BY <1>10 DEF Pop, LandedType
<1>11. ASSUME NEW t \in Thread, Relabel(t) PROVE LandedType'
  BY <1>11 DEF Relabel, LandedType
<1>12. ASSUME NEW t \in Thread, SetLookup(t) PROVE LandedType'
  BY <1>12 DEF SetLookup, LandedType, Shown
<1>13. ASSUME NEW t \in Thread, ClearMark(t) PROVE LandedType'
  BY <1>13 DEF ClearMark, LandedType
<1>21. ASSUME NEW t \in Thread, CountDown(t) PROVE LandedType'
  BY <1>21 DEF CountDown, LandedType
<1>14. ASSUME NEW t \in Thread, Unlist(t) PROVE LandedType'
  BY <1>14 DEF Unlist, LandedType
<1>15. ASSUME NEW t \in Thread, Lookup(t) PROVE LandedType'
  BY <1>15 DEF Lookup, LandedType
<1>16. ASSUME NEW t \in Thread, Found(t) PROVE LandedType'
  BY <1>16 DEF Found, LandedType
<1>17. ASSUME NEW t \in Thread, InitSlot(t) PROVE LandedType'
  BY <1>17 DEF InitSlot, LandedType
<1>18. ASSUME NEW t \in Thread, WriteData(t) PROVE LandedType'
  BY <1>18 DEF WriteData, LandedType
<1>19. ASSUME NEW t \in Thread, Link(t) PROVE LandedType'
  <2>1. vector[t] \in Vector
    BY <1>19 DEF Link, Kept, Places, Idle
  <2>2. [present |-> TRUE, data |-> vector[t], deleted |-> FALSE] \in Shown
    BY <2>1 DEF Shown
  <2> QED
    BY <1>19, <2>2 DEF Link, LandedType
<1>20. ASSUME NEW t \in Thread, LinkThrows(t) PROVE LandedType'
  <2>1. vector[t] \in Vector
    BY <1>20 DEF LinkThrows, Kept, Places, Idle
  <2>2. [present |-> TRUE, data |-> vector[t], deleted |-> FALSE] \in Shown
    BY <2>1 DEF Shown
  <2> QED
    BY <1>20, <2>2 DEF LinkThrows, LandedType
<1> QED
  BY <1>1, <1>2, <1>3, <1>4, <1>5, <1>6, <1>7, <1>8, <1>9, <1>10, <1>11,
     <1>12, <1>13, <1>14, <1>15, <1>16, <1>17, <1>18, <1>19, <1>20, <1>21 DEF Next, Step

-----------------------------------------------------------------------------

Careful ==
  /\ Kept
  /\ LandedType
  /\ careful => SlotsFound /\ RowsFound /\ Requests /\ RowsKept

(* The inductive invariant with careful callers, at first and in every     *)
(* step.                                                                   *)
LEMMA CarefulInit ==
  ASSUME BatchAssumption, Init
  PROVE  Careful
<1>1. /\ level0 = <<>> /\ label_lookup_ = [l \in Label |-> 0]
      /\ landed = [l \in Label |-> [present |-> FALSE]]
      /\ batch = "none" /\ pc = [t \in Thread |-> "exited"]
  BY DEF Init, Table!Init
<1>2. Len(level0) = 0
  BY <1>1
<1>3. SlotsFound /\ RowsFound /\ Requests
  BY <1>1, <1>2 DEF SlotsFound, RowsFound, RowFound, Requests, Using, Writing
<1>4. LandedType
  BY <1>1 DEF LandedType, Shown
<1>5. RowsKept
  BY <1>1 DEF RowsKept, Seen
<1> QED
  BY <1>3, <1>4, <1>5, InitKept DEF Careful

LEMMA CarefulIsInductive ==
  ASSUME BatchAssumption, Careful, [Next]_vars
  PROVE  Careful'
<1>1. Kept' /\ LandedType'
  BY KeptIsInductive, LandedTypeStays DEF Careful
<1>2. careful' = careful
  BY DEF vars, config, Next, Step, Mark, Unmark, StartBatch, EndBatch, Fetch, Exit, Throw,
     LockLabel, Pop, Relabel, SetLookup, ClearMark, CountDown, Unlist, Lookup, Found, InitSlot,
     WriteData, Link, LinkThrows
<1>3. ASSUME careful PROVE SlotsFound' /\ RowsFound' /\ Requests' /\ RowsKept'
  BY <1>3, SlotsStayFound, RowsStayFound, RequestsStayNew, RowsStayKept DEF Careful
<1> QED
  BY <1>1, <1>2, <1>3 DEF Careful

(* What the table guarantees, in the middle of a batch too, to callers     *)
(* that pass replaceDeleted only with new labels that differ.              *)
THEOREM CarefulAlways == Spec => []Careful
<1>1. Init => Careful
  BY BatchAssumption, CarefulInit
<1>2. Careful /\ [Next]_vars => Careful'
  BY BatchAssumption, CarefulIsInductive
<1> QED
  BY <1>1, <1>2, PTL DEF Spec

(* With careful callers every batch leaves a table whose lookup and slots  *)
(* agree both ways.                                                        *)
THEOREM SoundBetweenBatches == Spec => []TableSoundBetweenBatches
<1>1. Careful => TableSoundBetweenBatches
  <2> SUFFICES ASSUME Careful, careful, batch = "none"
               PROVE  Table!LookupSound /\ Table!EverySlotFound
    BY DEF TableSoundBetweenBatches
  <2>1. \A t \in Thread : pc[t] = "exited"
    BY DEF Careful, Kept, Places
  <2>2. \A s \in 1..Len(level0) : label_lookup_[level0[s].label] = s
    BY <2>1 DEF Careful, SlotsFound, Moving
  <2>3. \A l \in Label : label_lookup_[l] # 0 => level0[label_lookup_[l]].label = l
    BY <2>1 DEF Careful, Kept, LookupsKept, Between
  <2> QED
    BY <2>2, <2>3 DEF Table!LookupSound, Table!EverySlotFound, Table!Slots
<1> QED
  BY <1>1, CarefulAlways, PTL

(* With careful callers no finished row is lost, and a refused row changes *)
(* nothing.                                                                *)
THEOREM FinishedRowsLand == Spec => []RowsLand
<1>1. Careful => RowsLand
  <2> SUFFICES ASSUME Careful, careful, NEW l \in Label,
                      \A t \in Thread : InAddPoint(t) => label[t] # l
               PROVE  Table!Visible(label_lookup_, level0)[l] = landed[l]
    BY DEF RowsLand
  <2>1. ~InProgress(l)
    BY DEF InProgress, Updating, InAddPoint
  <2> QED
    BY <2>1, SeenIsVisible DEF Careful, RowsKept
<1> QED
  BY <1>1, CarefulAlways, PTL

=============================================================================
