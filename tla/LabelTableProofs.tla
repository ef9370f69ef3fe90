-------------------------- MODULE LabelTableProofs --------------------------
(***************************************************************************)
(* Proofs, for every set of labels, vectors and capacities, of the         *)
(* invariants of LabelTable that its TLC runs check on small instances.    *)
(***************************************************************************)
EXTENDS LabelTable, FiniteSetTheorems, WellFoundedInduction, TLAPS

-----------------------------------------------------------------------------
(* How the marked slots follow the two ways a base layer changes.          *)

LEMMA MarkedFinite ==
  ASSUME NEW layer \in Seq(SlotEntry)
  PROVE  /\ IsFiniteSet(Marked(layer))
         /\ Cardinality(Marked(layer)) \in 0..Len(layer)
<1>0. Len(layer) \in Nat
  OBVIOUS
<1>1. IsFiniteSet(1..Len(layer)) /\ Cardinality(1..Len(layer)) = Len(layer)
  BY <1>0, FS_Interval
<1>2. Marked(layer) \in SUBSET (1..Len(layer))
  BY DEF Marked, Slots
<1>3. IsFiniteSet(Marked(layer)) /\ Cardinality(Marked(layer)) <= Len(layer)
  BY <1>1, <1>2, FS_Subset
<1>4. Cardinality(Marked(layer)) \in Nat
  BY <1>3, FS_CardinalityType
<1> QED
  BY <1>0, <1>3, <1>4

(* The two ways, named so that the facts below apply to them as terms. *)
Written(layer, s, entry) == [layer EXCEPT ![s] = entry]
Longer(layer, entry)     == Append(layer, entry)

LEMMA MarkedAfterWrite ==
  ASSUME NEW layer \in Seq(SlotEntry), NEW s \in Slots(layer),
         NEW entry \in SlotEntry
  PROVE  /\ Written(layer, s, entry) \in Seq(SlotEntry)
         /\ Len(Written(layer, s, entry)) = Len(layer)
         /\ Written(layer, s, entry)[s] = entry
         /\ \A t \in Slots(layer) : t # s => Written(layer, s, entry)[t] = layer[t]
         /\ Marked(Written(layer, s, entry)) =
              IF entry.deleted THEN Marked(layer) \union {s} ELSE Marked(layer) \ {s}
<1> DEFINE written == Written(layer, s, entry)
<1>1. written \in Seq(SlotEntry) /\ Len(written) = Len(layer)
  BY DEF Slots, Written
<1>2. \A t \in Slots(layer) : written[t] = IF t = s THEN entry ELSE layer[t]
  BY DEF Slots, Written
<1>3. Slots(written) = Slots(layer)
  BY <1>1 DEF Slots
<1>4. \A t \in Slots(layer) :
        t \in Marked(written) <=> IF t = s THEN entry.deleted ELSE t \in Marked(layer)
  BY <1>2, <1>3 DEF Marked
<1>5. Marked(written) \subseteq Slots(layer) /\ Marked(layer) \subseteq Slots(layer)
  BY <1>3 DEF Marked
<1> QED
  BY <1>1, <1>2, <1>4, <1>5

LEMMA MarkedAfterAppend ==
  ASSUME NEW layer \in Seq(SlotEntry), NEW entry \in SlotEntry, ~entry.deleted
  PROVE  /\ Longer(layer, entry) \in Seq(SlotEntry)
         /\ Len(Longer(layer, entry)) = Len(layer) + 1
         /\ Longer(layer, entry)[Len(layer) + 1] = entry
         /\ \A t \in Slots(layer) : Longer(layer, entry)[t] = layer[t]
         /\ Marked(Longer(layer, entry)) = Marked(layer)
<1> DEFINE longer == Longer(layer, entry)
<1>1. /\ longer \in Seq(SlotEntry)
      /\ Len(longer) = Len(layer) + 1
      /\ longer[Len(layer) + 1] = entry
      /\ \A t \in Slots(layer) : longer[t] = layer[t]
  BY DEF Slots, Longer
<1>2. Slots(longer) = Slots(layer) \union {Len(layer) + 1}
  BY <1>1 DEF Slots
<1>3. Len(layer) + 1 \notin Slots(layer)
  BY DEF Slots
<1> QED
  BY <1>1, <1>2, <1>3 DEF Marked

-----------------------------------------------------------------------------
(* The lookup table that loadIndex rebuilds.                               *)

(* A non-empty set of slots has a last one: the order of their distances   *)
(* from the end is well founded.                                           *)
LEMMA MaxIsLast ==
  ASSUME NEW n \in Nat, NEW S \in SUBSET (1..n), S # {}
  PROVE  Max(S) \in S /\ \A t \in S : t <= Max(S)
<1> DEFINE T == {n - s : s \in S}
           R == OpToRel(<, Nat)
<1>1. \A s \in S : s \in Nat /\ n - s \in Nat
  OBVIOUS
<1>2. T \subseteq Nat /\ T # {}
  BY <1>1
<1>3. IsWellFoundedOn(R, Nat)
  BY NatLessThanWellFounded
<1>4. \A x, y \in Nat : <<y, x>> \in R <=> y < x
  BY DEF OpToRel
<1>5. \E x \in T : \A y \in T : ~(<<y, x>> \in R)
  <2> HIDE DEF T, R
  <2> QED
    BY <1>2, <1>3, WFMin
<1>6. PICK s \in S : \A t \in S : ~(<<n - t, n - s>> \in R)
  <2> HIDE DEF R
  <2> QED
    BY <1>5
<1>7. \A t \in S : t <= s
  <2> HIDE DEF R
  <2> SUFFICES ASSUME NEW t \in S PROVE t <= s
    OBVIOUS
  <2>1. ~(n - t < n - s)
    BY <1>1, <1>4, <1>6
  <2> QED
    BY <1>1, <2>1
<1>8. \A t \in S : s >= t
  BY <1>1, <1>7
<1>9. Max(S) \in S /\ \A t \in S : Max(S) >= t
  BY <1>8 DEF Max
<1> QED
  BY <1>1, <1>9

LEMMA RebuiltFacts ==
  ASSUME NEW layer \in Seq(SlotEntry)
  PROVE  /\ Rebuilt(layer) \in [Label -> 0..Len(layer)]
         /\ \A l \in Label : Rebuilt(layer)[l] # 0 =>
              layer[Rebuilt(layer)[l]].label = l
         /\ \A s \in Slots(layer) :
              LET l == Rebuilt(layer)[layer[s].label]
              IN  l \in Slots(layer) /\ layer[l].label = layer[s].label
<1> DEFINE Holders(l) == {s \in Slots(layer) : layer[s].label = l}
<1>1. \A l \in Label : Rebuilt(layer)[l] = IF Holders(l) = {} THEN 0 ELSE Max(Holders(l))
  BY DEF Rebuilt
<1>2. ASSUME NEW l \in Label, Holders(l) # {}
      PROVE  Rebuilt(layer)[l] \in Holders(l)
  <2>1. Holders(l) \in SUBSET (1..Len(layer)) /\ Len(layer) \in Nat
    BY DEF Slots
  <2>2. Max(Holders(l)) \in Holders(l)
    BY <1>2, <2>1, MaxIsLast
  <2> QED
    BY <1>1, <1>2, <2>2
<1>3. \A s \in Slots(layer) : layer[s].label \in Label /\ s \in Holders(layer[s].label)
  <2>1. \A s \in Slots(layer) : layer[s] \in SlotEntry
    BY DEF Slots
  <2> QED
    BY <2>1 DEF SlotEntry
<1>4. \A l \in Label : Rebuilt(layer)[l] = 0 \/ Rebuilt(layer)[l] \in Holders(l)
  BY <1>1, <1>2
<1>5. Rebuilt(layer) \in [Label -> 0..Len(layer)]
  <2>1. \A l \in Label : Rebuilt(layer)[l] \in 0..Len(layer)
    BY <1>4 DEF Slots
  <2> QED
    BY <2>1 DEF Rebuilt
<1>6. \A l \in Label : Rebuilt(layer)[l] # 0 => layer[Rebuilt(layer)[l]].label = l
  BY <1>4
<1>7. ASSUME NEW s \in Slots(layer)
      PROVE  Rebuilt(layer)[layer[s].label] \in Holders(layer[s].label)
  BY <1>2, <1>3
<1> QED
  BY <1>5, <1>6, <1>7

-----------------------------------------------------------------------------
(* The inductive invariant.  The four parts need each other: a slot popped *)
(* from the free list is marked (FreeListExact), so the decrement of       *)
(* num_deleted_ is a removal from a set that contains it.                  *)

IndInv == TypeOK /\ LookupSound /\ DeletedAccounting /\ FreeListExact

LEMMA InitInd == Init => IndInv
<1> SUFFICES ASSUME Init PROVE IndInv
  OBVIOUS
<1> USE ConstantsAssumption DEF Init
<1>1. Marked(level0) = {}
  BY DEF Marked, Slots
<1>2. TypeOK
  BY DEF TypeOK, Slots, NoFile
<1>3. LookupSound
  BY DEF LookupSound
<1>4. DeletedAccounting
  BY <1>1, FS_EmptySet DEF DeletedAccounting
<1>5. FreeListExact
  BY <1>1 DEF FreeListExact
<1> QED
  BY <1>2, <1>3, <1>4, <1>5 DEF IndInv

(* Only the invariant's own variables matter to it. *)
LEMMA UnchangedInd ==
  ASSUME IndInv, UNCHANGED <<table, allow_replace_deleted_>>,
         \/ UNCHANGED <<max_elements_, file>>
         \/ UNCHANGED max_elements_ /\ SaveIndex
         \/ \E n \in Capacities : n >= Len(level0) /\ max_elements_' = n /\ UNCHANGED file
  PROVE  IndInv'
<1>1. UNCHANGED <<level0, label_lookup_, num_deleted_, deleted_elements>>
  BY DEF table
<1>2. /\ max_elements_' \in Nat \ {0}
      /\ Len(level0) <= max_elements_'
  BY ConstantsAssumption DEF IndInv, TypeOK
<1>3. file'.saved => /\ file'.level0 \in Seq(SlotEntry)
                     /\ file'.max_elements_ \in Nat \ {0}
                     /\ Len(file'.level0) <= file'.max_elements_
  <2>1. CASE UNCHANGED file
    BY <2>1 DEF IndInv, TypeOK
  <2>2. CASE SaveIndex
    BY <2>2 DEF IndInv, TypeOK, SaveIndex
  <2> QED
    BY <2>1, <2>2
<1>4. TypeOK'
  BY <1>1, <1>2, <1>3 DEF IndInv, TypeOK
<1>5. LookupSound' /\ DeletedAccounting' /\ FreeListExact'
  BY <1>1 DEF IndInv, LookupSound, DeletedAccounting, FreeListExact
<1> QED
  BY <1>4, <1>5 DEF IndInv

LEMMA MarkInd ==
  ASSUME IndInv, NEW s \in Slots(level0), ~level0[s].deleted,
         MarkDeletedInternal(s),
         UNCHANGED <<label_lookup_, max_elements_, allow_replace_deleted_, file>>
  PROVE  IndInv'
<1> DEFINE entry == WithMark(level0[s], TRUE)
<1>0. level0 \in Seq(SlotEntry) /\ s \in Slots(level0)
  BY DEF IndInv, TypeOK
<1>1. level0[s] \in SlotEntry
  BY <1>0 DEF Slots
<1>2. entry \in SlotEntry
  BY <1>1 DEF WithMark, SlotEntry
<1>20. entry.deleted /\ entry.label = level0[s].label
  BY DEF WithMark
<1>3. level0' = Written(level0, s, entry)
  BY DEF Written, MarkDeletedInternal
<1> HIDE DEF entry
<1>4. /\ level0' \in Seq(SlotEntry)
      /\ Len(level0') = Len(level0)
      /\ level0'[s] = entry
      /\ \A t \in Slots(level0) : t # s => level0'[t] = level0[t]
      /\ Marked(level0') = Marked(level0) \union {s}
  <2> DEFINE written == Written(level0, s, entry)
  <2>1. /\ written \in Seq(SlotEntry)
        /\ Len(written) = Len(level0)
        /\ written[s] = entry
        /\ \A t \in Slots(level0) : t # s => written[t] = level0[t]
        /\ Marked(written) =
             IF entry.deleted THEN Marked(level0) \union {s} ELSE Marked(level0) \ {s}
    BY <1>0, <1>2, MarkedAfterWrite
  <2> HIDE DEF written
  <2> QED
    BY <1>20, <1>3, <2>1 DEF written
<1>5. s \notin Marked(level0)
  BY DEF Marked
<1>6. DeletedAccounting'
  BY <1>0, <1>4, <1>5, MarkedFinite, FS_AddElement
  DEF IndInv, DeletedAccounting, MarkDeletedInternal
<1>7. num_deleted_' \in 0..Len(level0')
  BY <1>4, <1>6, MarkedFinite DEF DeletedAccounting
<1>8. FreeListExact'
  BY <1>4 DEF IndInv, FreeListExact, MarkDeletedInternal
<1>9. Marked(level0') \subseteq Slots(level0')
  BY DEF Marked
<1>10. TypeOK'
  BY <1>4, <1>7, <1>8, <1>9 DEF IndInv, TypeOK, FreeListExact, Slots
<1>11. LookupSound'
  BY <1>20, <1>4 DEF IndInv, TypeOK, LookupSound, Slots
<1> QED
  BY <1>6, <1>8, <1>10, <1>11 DEF IndInv

(* A marked slot gets a live entry; the table may be turned to another     *)
(* label as long as it stays sound.                                        *)
LEMMA UnmarkInd ==
  ASSUME IndInv, NEW s \in Marked(level0),
         NEW entry \in SlotEntry, ~entry.deleted,
         UnmarkDeletedInternal(s, entry),
         UNCHANGED <<max_elements_, allow_replace_deleted_, file>>,
         label_lookup_' \in [Label -> 0..Len(level0)],
         LookupSound'
  PROVE  IndInv'
<1>1. level0 \in Seq(SlotEntry) /\ s \in Slots(level0)
  BY DEF IndInv, TypeOK, Marked
<1>2. level0' = Written(level0, s, entry)
  BY DEF Written, UnmarkDeletedInternal
<1>3. /\ level0' \in Seq(SlotEntry)
      /\ Len(level0') = Len(level0)
      /\ Marked(level0') = Marked(level0) \ {s}
  BY <1>1, <1>2, MarkedAfterWrite
<1>4. DeletedAccounting'
  BY <1>1, <1>3, MarkedFinite, FS_RemoveElement
  DEF IndInv, DeletedAccounting, UnmarkDeletedInternal
<1>5. num_deleted_' \in 0..Len(level0')
  BY <1>3, <1>4, MarkedFinite DEF DeletedAccounting
<1>6. FreeListExact'
  BY <1>3 DEF IndInv, FreeListExact, UnmarkDeletedInternal
<1>7. Marked(level0') \subseteq Slots(level0')
  BY DEF Marked
<1>8. TypeOK'
  BY <1>3, <1>5, <1>6, <1>7 DEF IndInv, TypeOK, FreeListExact, Slots
<1> QED
  BY <1>4, <1>6, <1>8 DEF IndInv

LEMMA UpdateInd ==
  ASSUME IndInv, NEW l \in Label, NEW v \in Vector,
         label_lookup_[l] # 0, UpdateExisting(l, v),
         UNCHANGED <<max_elements_, allow_replace_deleted_, file>>
  PROVE  IndInv'
<1> DEFINE s == label_lookup_[l]
           entry == LiveEntry(level0[s].label, v)
<1>1. s \in Slots(level0) /\ level0 \in Seq(SlotEntry)
  BY DEF IndInv, TypeOK, Slots
<1>2. level0[s] \in SlotEntry
  BY <1>1 DEF Slots
<1>3. entry \in SlotEntry /\ ~entry.deleted
  BY <1>2 DEF LiveEntry, SlotEntry
<1>30. entry.label = level0[s].label
  BY DEF LiveEntry
<1>4. level0' = Written(level0, s, entry) /\ UNCHANGED label_lookup_
  BY DEF Written, UpdateExisting, UnmarkDeletedInternal
<1>5. /\ level0' \in Seq(SlotEntry)
      /\ Len(level0') = Len(level0)
      /\ level0'[s] = entry
      /\ \A t \in Slots(level0) : t # s => level0'[t] = level0[t]
      /\ Marked(level0') = Marked(level0) \ {s}
  <2> HIDE DEF s, entry
  <2> QED
    BY <1>1, <1>3, <1>4, MarkedAfterWrite
<1>6. LookupSound'
  BY <1>30, <1>4, <1>5 DEF IndInv, TypeOK, LookupSound, Slots
<1>7. CASE level0[s].deleted
  <2>1. s \in Marked(level0) /\ UnmarkDeletedInternal(s, entry)
    BY <1>1, <1>7 DEF Marked, UpdateExisting
  <2>2. label_lookup_' \in [Label -> 0..Len(level0)]
    BY <1>4 DEF IndInv, TypeOK
  <2> HIDE DEF entry, s
  <2> QED
    BY <1>3, <1>6, <2>1, <2>2, UnmarkInd
<1>8. CASE ~level0[s].deleted
  <2>1. UNCHANGED <<num_deleted_, deleted_elements>>
    BY <1>8 DEF UpdateExisting
  <2>2. Marked(level0') = Marked(level0)
    BY <1>5, <1>8 DEF Marked
  <2>3. TypeOK'
    BY <1>4, <1>5, <2>1 DEF IndInv, TypeOK, Slots
  <2> QED
    BY <1>6, <2>1, <2>2, <2>3 DEF IndInv, DeletedAccounting, FreeListExact
<1> QED
  BY <1>7, <1>8

LEMMA AppendInd ==
  ASSUME IndInv, NEW l \in Label, NEW v \in Vector,
         label_lookup_[l] = 0, Len(level0) < max_elements_, Append1(l, v),
         UNCHANGED <<max_elements_, allow_replace_deleted_, file>>
  PROVE  IndInv'
<1> DEFINE entry == LiveEntry(l, v)
<1>1. level0 \in Seq(SlotEntry)
  BY DEF IndInv, TypeOK
<1>2. entry \in SlotEntry /\ ~entry.deleted /\ entry.label = l
  BY DEF LiveEntry, SlotEntry
<1>3. level0' = Longer(level0, entry)
  BY DEF Longer, Append1
<1> HIDE DEF entry
<1>4. /\ level0' \in Seq(SlotEntry)
      /\ Len(level0') = Len(level0) + 1
      /\ level0'[Len(level0) + 1] = entry
      /\ \A t \in Slots(level0) : level0'[t] = level0[t]
      /\ Marked(level0') = Marked(level0)
  BY <1>1, <1>2, <1>3, MarkedAfterAppend
<1>5. /\ label_lookup_' = [label_lookup_ EXCEPT ![l] = Len(level0) + 1]
      /\ UNCHANGED <<num_deleted_, deleted_elements>>
  BY DEF Append1
<1>6. Len(level0) \in Nat
  BY <1>1
<1>7. TypeOK'
  BY <1>4, <1>5, <1>6 DEF IndInv, TypeOK, Slots
<1>8. LookupSound'
  BY <1>2, <1>4, <1>5, <1>6 DEF IndInv, TypeOK, LookupSound, Slots
<1> QED
  BY <1>4, <1>5, <1>7, <1>8 DEF IndInv, DeletedAccounting, FreeListExact

(* The lookup stays sound because the label that loses the slot loses its  *)
(* table entry in the same step.                                           *)
LEMMA ReplaceInd ==
  ASSUME IndInv, NEW l \in Label, NEW v \in Vector, ReplaceDeleted(l, v)
  PROVE  IndInv'
<1>1. PICK s \in deleted_elements :
        /\ label_lookup_' = [label_lookup_ EXCEPT ![level0[s].label] = 0, ![l] = s]
        /\ UnmarkDeletedInternal(s, LiveEntry(l, v))
        /\ UNCHANGED <<max_elements_, allow_replace_deleted_, file>>
  BY DEF ReplaceDeleted
<1> DEFINE entry == LiveEntry(l, v)
<1>2. s \in Marked(level0) /\ s \in Slots(level0) /\ level0 \in Seq(SlotEntry)
  BY DEF IndInv, TypeOK, FreeListExact, Marked
<1>3. entry \in SlotEntry /\ ~entry.deleted /\ entry.label = l
  BY DEF LiveEntry, SlotEntry
<1>4. level0' = Written(level0, s, entry)
  BY <1>1 DEF Written, UnmarkDeletedInternal
<1> HIDE DEF entry
<1>5. /\ Len(level0') = Len(level0)
      /\ level0'[s] = entry
      /\ \A t \in Slots(level0) : t # s => level0'[t] = level0[t]
  BY <1>2, <1>3, <1>4, MarkedAfterWrite
<1>6. level0[s] \in SlotEntry
  BY <1>2 DEF Slots
<1>7. label_lookup_' \in [Label -> 0..Len(level0)]
  BY <1>1, <1>2 DEF IndInv, TypeOK, Slots
<1>8. LookupSound'
  <2> SUFFICES ASSUME NEW m \in Label, label_lookup_'[m] # 0
               PROVE  level0'[label_lookup_'[m]].label = m
    BY DEF LookupSound
  <2>1. CASE m = l
    BY <1>1, <1>3, <1>5, <2>1 DEF IndInv, TypeOK
  <2>2. CASE m # l
    <3>1. label_lookup_'[m] = label_lookup_[m] /\ m # level0[s].label
      BY <1>1, <2>2 DEF IndInv, TypeOK
    <3>2. label_lookup_[m] \in Slots(level0) /\ level0[label_lookup_[m]].label = m
      BY <3>1 DEF IndInv, TypeOK, LookupSound, Slots
    <3> QED
      BY <1>5, <3>1, <3>2
  <2> QED
    BY <2>1, <2>2
<1> QED
  BY <1>1, <1>2, <1>3, <1>7, <1>8, UnmarkInd DEF entry

LEMMA LoadInd ==
  ASSUME IndInv, NEW n \in Capacities, NEW allow \in BOOLEAN, LoadIndex(n, allow)
  PROVE  IndInv'
<1>1. /\ level0' = file.level0
      /\ max_elements_' = IF n < Len(file.level0) THEN file.max_elements_ ELSE n
      /\ num_deleted_' = Cardinality(Marked(file.level0))
      /\ deleted_elements' = IF allow THEN Marked(file.level0) ELSE {}
      /\ allow_replace_deleted_' = allow
      /\ UNCHANGED file
      /\ file.saved
  BY DEF LoadIndex
<1>2. label_lookup_' = Rebuilt(file.level0)
  BY DEF LoadIndex
<1>3. /\ file.level0 \in Seq(SlotEntry)
      /\ file.max_elements_ \in Nat \ {0}
      /\ Len(file.level0) <= file.max_elements_
  BY <1>1 DEF IndInv, TypeOK
<1>4. Marked(file.level0) \subseteq Slots(file.level0)
  BY DEF Marked
<1>5. num_deleted_' \in 0..Len(level0')
  BY <1>1, <1>3, MarkedFinite
<1>6. n \in Nat \ {0} /\ Len(file.level0) \in Nat
  BY <1>3, ConstantsAssumption
<1>7. TypeOK'
  BY <1>1, <1>2, <1>3, <1>4, <1>5, <1>6, RebuiltFacts DEF TypeOK
<1>8. LookupSound'
  BY <1>1, <1>2, <1>3, RebuiltFacts DEF LookupSound
<1>9. DeletedAccounting' /\ FreeListExact'
  BY <1>1 DEF DeletedAccounting, FreeListExact
<1> QED
  BY <1>7, <1>8, <1>9 DEF IndInv

LEMMA AddInd ==
  ASSUME IndInv, NEW l \in Label, NEW v \in Vector, AddOrUpdate(l, v)
  PROVE  IndInv'
<1>1. CASE Throw("add", l)
  BY <1>1, UnchangedInd DEF Throw, table
<1>2. CASE label_lookup_[l] # 0 /\ UpdateExisting(l, v)
           /\ UNCHANGED <<max_elements_, allow_replace_deleted_, file>>
  BY <1>2, UpdateInd
<1>3. CASE label_lookup_[l] = 0 /\ ~(Len(level0) >= max_elements_) /\ Append1(l, v)
           /\ UNCHANGED <<max_elements_, allow_replace_deleted_, file>>
  <2>1. Len(level0) < max_elements_
    BY <1>3 DEF IndInv, TypeOK
  <2> QED
    BY <1>3, <2>1, AppendInd
<1> QED
  BY <1>1, <1>2, <1>3, Zenon DEF AddOrUpdate

LEMMA StepInd == IndInv /\ [Next]_vars => IndInv'
<1> SUFFICES ASSUME IndInv, [Next]_vars PROVE IndInv'
  OBVIOUS
<1>1. ASSUME NEW l \in Label, NEW v \in Vector, NEW replace \in BOOLEAN,
             AddPoint(l, v, replace)
      PROVE  IndInv'
  <2>1. CASE Throw("add", l)
    BY <2>1, UnchangedInd DEF Throw, table
  <2>2. CASE ReplaceDeleted(l, v)
    BY <2>2, ReplaceInd
  <2>3. CASE AddOrUpdate(l, v)
    BY <2>3, AddInd
  <2> QED
    BY <1>1, <2>1, <2>2, <2>3 DEF AddPoint
<1>2. ASSUME NEW l \in Label, MarkDelete(l) PROVE IndInv'
  <2>1. CASE Throw("mark", l)
    BY <2>1, UnchangedInd DEF Throw, table
  <2>2. CASE ~Throw("mark", l)
    <3>0. label_lookup_[l] # 0 /\ ~level0[label_lookup_[l]].deleted
      BY <1>2, <2>2, Zenon DEF MarkDelete
    <3>1. label_lookup_[l] \in Slots(level0)
      BY <3>0 DEF IndInv, TypeOK, Slots
    <3>2. /\ MarkDeletedInternal(label_lookup_[l])
          /\ UNCHANGED <<label_lookup_, max_elements_, allow_replace_deleted_, file>>
      BY <1>2, <2>2, Zenon DEF MarkDelete
    <3> QED
      BY <3>0, <3>1, <3>2, MarkInd
  <2> QED
    BY <2>1, <2>2
<1>3. ASSUME NEW l \in Label, UnmarkDelete(l) PROVE IndInv'
  <2>1. CASE Throw("unmark", l)
    BY <2>1, UnchangedInd DEF Throw, table
  <2>2. CASE ~Throw("unmark", l)
    <3> DEFINE s == label_lookup_[l]
               entry == WithMark(level0[s], FALSE)
    <3>0. s # 0 /\ level0[s].deleted
      BY <1>3, <2>2, Zenon DEF UnmarkDelete
    <3>1. s \in Slots(level0)
      BY <3>0 DEF IndInv, TypeOK, Slots
    <3>2. /\ UnmarkDeletedInternal(s, entry)
          /\ UNCHANGED <<label_lookup_, max_elements_, allow_replace_deleted_, file>>
      BY <1>3, <2>2, Zenon DEF UnmarkDelete
    <3>3. level0 \in Seq(SlotEntry) /\ level0[s] \in SlotEntry
      BY <3>1 DEF IndInv, TypeOK, Slots
    <3>4. entry \in SlotEntry
      BY <3>3 DEF WithMark, SlotEntry
    <3>5. ~entry.deleted /\ entry.label = level0[s].label
      BY DEF WithMark
    <3>6. level0' = Written(level0, s, entry)
      BY <3>2 DEF UnmarkDeletedInternal, Written
    <3>7. s \in Marked(level0)
      BY <3>0, <3>1 DEF Marked
    <3> HIDE DEF s, entry
    <3>8. /\ level0'[s] = entry
          /\ \A t \in Slots(level0) : t # s => level0'[t] = level0[t]
      BY <3>1, <3>3, <3>4, <3>6, MarkedAfterWrite
    <3>9. LookupSound'
      BY <3>2, <3>5, <3>8 DEF IndInv, TypeOK, LookupSound, Slots
    <3>10. label_lookup_' \in [Label -> 0..Len(level0)]
      BY <3>2 DEF IndInv, TypeOK
    <3> QED
      BY <3>2, <3>4, <3>5, <3>7, <3>9, <3>10, UnmarkInd
  <2> QED
    BY <2>1, <2>2
<1>4. ASSUME NEW n \in Capacities, ResizeIndex(n) PROVE IndInv'
  <2>1. CASE Throw("resize", n)
    BY <2>1, UnchangedInd DEF Throw, table
  <2>2. CASE ~Throw("resize", n)
    <3>1. Len(level0) \in Nat /\ n \in Nat
      BY ConstantsAssumption DEF IndInv, TypeOK
    <3>2. /\ ~(n < Len(level0)) /\ max_elements_' = n
          /\ UNCHANGED <<table, allow_replace_deleted_, file>>
      BY <1>4, <2>2, Zenon DEF ResizeIndex
    <3>3. n >= Len(level0)
      BY <3>1, <3>2
    <3>4. UNCHANGED <<table, allow_replace_deleted_>> /\ UNCHANGED file
      BY <3>2 DEF table
    <3> QED
      BY <3>2, <3>3, <3>4, UnchangedInd
  <2> QED
    BY <2>1, <2>2
<1>5. CASE SaveIndex
  <2>1. UNCHANGED <<table, allow_replace_deleted_>> /\ UNCHANGED max_elements_
    BY <1>5 DEF SaveIndex
  <2> QED
    BY <1>5, <2>1, UnchangedInd
<1>6. ASSUME NEW n \in Capacities, NEW allow \in BOOLEAN, LoadIndex(n, allow)
      PROVE  IndInv'
  BY <1>6, LoadInd
<1>7. CASE UNCHANGED vars
  <2>1. UNCHANGED <<table, allow_replace_deleted_>> /\ UNCHANGED <<max_elements_, file>>
    BY <1>7 DEF vars, table
  <2> QED
    BY <2>1, UnchangedInd
<1> QED
  BY <1>1, <1>2, <1>3, <1>4, <1>5, <1>6, <1>7 DEF Next

(* The table invariants hold in every reachable state, whatever the        *)
(* callers do: types and bounds, a sound lookup, an exact count of the     *)
(* deleted slots and an exact free list (hnswalg.h, addPoint, markDelete,  *)
(* unmarkDelete, resizeIndex, loadIndex).                                  *)
THEOREM TableInvariant == Spec => []IndInv
<1>1. Init => IndInv
  BY InitInd
<1>2. IndInv /\ [Next]_vars => IndInv'
  BY StepInd
<1> QED
  BY <1>1, <1>2, PTL DEF Spec

(* Whatever the callers do, slots, lookup table, delete marks, free list   *)
(* and saved file stay within their bounds (hnswalg.h, addPoint,           *)
(* markDelete, resizeIndex, loadIndex).                                    *)
THEOREM TypeCorrect == Spec => []TypeOK
<1>1. IndInv => TypeOK
  BY DEF IndInv
<1> QED
  BY <1>1, TableInvariant, PTL

(* A label the table knows leads to a slot carrying it. *)
THEOREM LookupSoundHolds == Spec => []LookupSound
<1>1. IndInv => LookupSound
  BY DEF IndInv
<1> QED
  BY <1>1, TableInvariant, PTL

(* num_deleted_ is the number of marked slots, so that searchKnn drops the *)
(* delete checks only when nothing is deleted.                             *)
THEOREM DeletedAccountingHolds == Spec => []DeletedAccounting
<1>1. IndInv => DeletedAccounting
  BY DEF IndInv
<1> QED
  BY <1>1, TableInvariant, PTL

(* The free list is exactly the marked slots: addPoint never replaces a    *)
(* live point.                                                             *)
THEOREM FreeListExactHolds == Spec => []FreeListExact
<1>1. IndInv => FreeListExact
  BY DEF IndInv
<1> QED
  BY <1>1, TableInvariant, PTL

-----------------------------------------------------------------------------
(* Callers that replace with new labels only keep table and layer in       *)
(* bijection.  The saved image must be counted in: a reload rebuilds the   *)
(* table from the slots alone.                                             *)

FileDistinct ==
  file.saved =>
    \A s, t \in Slots(file.level0) :
      file.level0[s].label = file.level0[t].label => s = t

CompleteInv == EverySlotFound /\ FileDistinct

LEMMA InitComplete == Init => CompleteInv
BY DEF Init, NoFile, CompleteInv, EverySlotFound, FileDistinct, Slots

(* No write to a slot disturbs the bijection while the slot keeps its label. *)
LEMMA RewriteComplete ==
  ASSUME IndInv, EverySlotFound, NEW s \in Slots(level0),
         NEW entry \in SlotEntry, entry.label = level0[s].label,
         level0' = Written(level0, s, entry), UNCHANGED label_lookup_
  PROVE  EverySlotFound'
<1>1. level0 \in Seq(SlotEntry) /\ s \in Slots(level0)
  BY DEF IndInv, TypeOK
<1>2. /\ Len(level0') = Len(level0)
      /\ level0'[s] = entry
      /\ \A t \in Slots(level0) : t # s => level0'[t] = level0[t]
  <2> DEFINE written == Written(level0, s, entry)
  <2>1. /\ Len(written) = Len(level0)
        /\ written[s] = entry
        /\ \A t \in Slots(level0) : t # s => written[t] = level0[t]
    BY <1>1, MarkedAfterWrite, SMTT(30)
  <2>2. level0' = written
    OBVIOUS
  <2> HIDE DEF written
  <2> QED
    BY <2>1, <2>2
<1>3. Slots(level0') = Slots(level0)
  BY <1>2 DEF Slots
<1> QED
  BY <1>2, <1>3 DEF EverySlotFound

LEMMA UpdateComplete ==
  ASSUME IndInv, EverySlotFound, NEW l \in Label, NEW v \in Vector,
         label_lookup_[l] # 0, UpdateExisting(l, v)
  PROVE  EverySlotFound'
<1> DEFINE s == label_lookup_[l]
           entry == LiveEntry(level0[s].label, v)
<1>1. s \in Slots(level0) /\ level0 \in Seq(SlotEntry)
  BY DEF IndInv, TypeOK, Slots
<1>2. level0[s] \in SlotEntry
  BY <1>1 DEF Slots
<1>3. entry \in SlotEntry
  BY <1>2 DEF LiveEntry, SlotEntry
<1>4. entry.label = level0[s].label
  BY DEF LiveEntry
<1>5. level0' = Written(level0, s, entry) /\ UNCHANGED label_lookup_
  BY DEF Written, UpdateExisting, UnmarkDeletedInternal
<1> HIDE DEF s, entry
<1> QED
  BY <1>1, <1>3, <1>4, <1>5, RewriteComplete

LEMMA AppendComplete ==
  ASSUME IndInv, EverySlotFound, NEW l \in Label, NEW v \in Vector,
         label_lookup_[l] = 0, Append1(l, v)
  PROVE  EverySlotFound'
<1> DEFINE entry == LiveEntry(l, v)
<1>1. level0 \in Seq(SlotEntry) /\ Len(level0) \in Nat
  BY DEF IndInv, TypeOK
<1>2. entry \in SlotEntry /\ ~entry.deleted /\ entry.label = l
  BY DEF LiveEntry, SlotEntry
<1>3. level0' = Longer(level0, entry)
  BY DEF Longer, Append1
<1> HIDE DEF entry
<1>4. /\ Len(level0') = Len(level0) + 1
      /\ level0'[Len(level0) + 1] = entry
      /\ \A t \in Slots(level0) : level0'[t] = level0[t]
  BY <1>1, <1>2, <1>3, MarkedAfterAppend
<1>5. /\ label_lookup_ \in [Label -> 0..Len(level0)]
      /\ label_lookup_' = [label_lookup_ EXCEPT ![l] = Len(level0) + 1]
  BY DEF Append1, IndInv, TypeOK
<1>6. SUFFICES ASSUME NEW t \in Slots(level0')
               PROVE  label_lookup_'[level0'[t].label] = t
  BY DEF EverySlotFound
<1>7. CASE t = Len(level0) + 1
  BY <1>2, <1>4, <1>5, <1>7
<1>8. CASE t # Len(level0) + 1
  <2>1. t \in Slots(level0) /\ t # 0
    BY <1>1, <1>4, <1>8 DEF Slots
  <2>2. level0'[t] = level0[t] /\ level0[t] \in SlotEntry
    BY <1>1, <1>4, <2>1 DEF Slots
  <2>3. level0[t].label \in Label
    BY <2>2 DEF SlotEntry
  <2>4. label_lookup_[level0[t].label] = t
    BY <2>1 DEF EverySlotFound
  <2>5. level0[t].label # l
    BY <2>1, <2>4
  <2> QED
    BY <1>5, <2>2, <2>3, <2>4, <2>5
<1> QED
  BY <1>7, <1>8

(* Only because the label is new does no other slot carry it already.      *)
LEMMA ReplaceComplete ==
  ASSUME IndInv, EverySlotFound, NEW l \in Label, NEW v \in Vector,
         label_lookup_[l] = 0, ReplaceDeleted(l, v)
  PROVE  EverySlotFound'
<1>1. PICK s \in deleted_elements :
        /\ label_lookup_' = [label_lookup_ EXCEPT ![level0[s].label] = 0, ![l] = s]
        /\ UnmarkDeletedInternal(s, LiveEntry(l, v))
  BY DEF ReplaceDeleted
<1> DEFINE entry == LiveEntry(l, v)
<1>2. s \in Slots(level0) /\ level0 \in Seq(SlotEntry)
  BY DEF IndInv, TypeOK
<1>3. entry \in SlotEntry /\ ~entry.deleted /\ entry.label = l
  BY DEF LiveEntry, SlotEntry
<1>4. level0' = Written(level0, s, entry)
  BY <1>1 DEF Written, UnmarkDeletedInternal
<1> HIDE DEF entry
<1>5. /\ Len(level0') = Len(level0)
      /\ level0'[s] = entry
      /\ \A t \in Slots(level0) : t # s => level0'[t] = level0[t]
  BY <1>2, <1>3, <1>4, MarkedAfterWrite
<1>6. label_lookup_ \in [Label -> 0..Len(level0)]
  BY DEF IndInv, TypeOK
<1>7. SUFFICES ASSUME NEW t \in Slots(level0')
               PROVE  label_lookup_'[level0'[t].label] = t
  BY DEF EverySlotFound
<1>8. t \in Slots(level0) /\ t # 0
  BY <1>2, <1>5 DEF Slots
<1>9. CASE t = s
  BY <1>1, <1>3, <1>5, <1>6, <1>9
<1>10. CASE t # s
  <2>1. level0'[t] = level0[t] /\ level0[t] \in SlotEntry
    BY <1>2, <1>5, <1>8, <1>10 DEF Slots
  <2>2. level0[t].label \in Label
    BY <2>1 DEF SlotEntry
  <2>3. /\ label_lookup_[level0[t].label] = t
        /\ label_lookup_[level0[s].label] = s
    BY <1>2, <1>8 DEF EverySlotFound
  <2>4. level0[t].label # l /\ level0[t].label # level0[s].label
    BY <1>8, <1>10, <2>3
  <2> QED
    BY <1>1, <1>6, <2>1, <2>2, <2>3, <2>4
<1> QED
  BY <1>9, <1>10

LEMMA LoadComplete ==
  ASSUME IndInv, FileDistinct, NEW n \in Capacities, NEW allow \in BOOLEAN,
         LoadIndex(n, allow)
  PROVE  EverySlotFound'
<1>1. /\ file.saved
      /\ level0' = file.level0
      /\ label_lookup_' = Rebuilt(file.level0)
  BY DEF LoadIndex
<1>2. file.level0 \in Seq(SlotEntry)
  BY <1>1 DEF IndInv, TypeOK
<1>3. SUFFICES ASSUME NEW s \in Slots(file.level0)
               PROVE  label_lookup_'[file.level0[s].label] = s
  BY <1>1 DEF EverySlotFound
<1> DEFINE l == file.level0[s].label
           holders == {t \in Slots(file.level0) : file.level0[t].label = l}
<1>4. file.level0[s] \in SlotEntry
  BY <1>2 DEF Slots
<1>5. l \in Label /\ s \in holders
  BY <1>4 DEF SlotEntry
<1>6. label_lookup_'[l] \in holders
  BY <1>1, <1>2, RebuiltFacts
<1> QED
  BY <1>1, <1>6 DEF FileDistinct

LEMMA StepComplete ==
  ASSUME careful, IndInv, CompleteInv, [Next]_vars
  PROVE  CompleteInv'
<1> USE DEF CompleteInv
<1>1. ASSUME UNCHANGED <<level0, label_lookup_>> PROVE EverySlotFound'
  BY <1>1 DEF EverySlotFound
<1>2. ASSUME UNCHANGED file PROVE FileDistinct'
  BY <1>2 DEF FileDistinct
<1>3. ASSUME NEW op, NEW arg, Throw(op, arg) PROVE CompleteInv'
  BY <1>1, <1>2, <1>3 DEF Throw
<1>4. ASSUME NEW l \in Label, NEW v \in Vector, AddOrUpdate(l, v)
      PROVE  CompleteInv'
  <2>1. CASE Throw("add", l)
    BY <1>3, <2>1
  <2>2. CASE label_lookup_[l] # 0 /\ UpdateExisting(l, v) /\ UNCHANGED file
    BY <1>2, <2>2, UpdateComplete
  <2>3. CASE label_lookup_[l] = 0 /\ Append1(l, v) /\ UNCHANGED file
    BY <1>2, <2>3, AppendComplete
  <2> QED
    BY <1>4, <2>1, <2>2, <2>3, Zenon DEF AddOrUpdate
<1>5. ASSUME NEW l \in Label, NEW v \in Vector, NEW replace \in BOOLEAN,
             CallersPass(l, replace), AddPoint(l, v, replace)
      PROVE  CompleteInv'
  <2>1. CASE replace /\ ReplaceDeleted(l, v)
    <3>1. label_lookup_[l] = 0
      BY <1>5, <2>1 DEF CallersPass
    <3>2. UNCHANGED file
      BY <2>1 DEF ReplaceDeleted
    <3> QED
      BY <1>2, <2>1, <3>1, <3>2, ReplaceComplete
  <2> QED
    BY <1>3, <1>4, <1>5, <2>1, Zenon DEF AddPoint
<1>6. ASSUME NEW l \in Label, MarkDelete(l) PROVE CompleteInv'
  <2>1. CASE ~Throw("mark", l)
    <3> DEFINE s == label_lookup_[l]
               entry == WithMark(level0[s], TRUE)
    <3>1. s # 0 /\ MarkDeletedInternal(s) /\ UNCHANGED <<label_lookup_, file>>
      BY <1>6, <2>1, Zenon DEF MarkDelete
    <3>2. s \in Slots(level0) /\ level0 \in Seq(SlotEntry)
      BY <3>1 DEF IndInv, TypeOK, Slots
    <3>3. level0[s] \in SlotEntry
      BY <3>2 DEF Slots
    <3>4. entry \in SlotEntry
      BY <3>3 DEF WithMark, SlotEntry
    <3>5. entry.label = level0[s].label
      BY DEF WithMark
    <3>6. level0' = Written(level0, s, entry)
      BY <3>1 DEF MarkDeletedInternal, Written
    <3> HIDE DEF s, entry
    <3> QED
      BY <1>2, <3>1, <3>2, <3>4, <3>5, <3>6, RewriteComplete
  <2> QED
    BY <1>3, <2>1
<1>7. ASSUME NEW l \in Label, UnmarkDelete(l) PROVE CompleteInv'
  <2>1. CASE ~Throw("unmark", l)
    <3> DEFINE s == label_lookup_[l]
               entry == WithMark(level0[s], FALSE)
    <3>1. s # 0 /\ UnmarkDeletedInternal(s, entry) /\ UNCHANGED <<label_lookup_, file>>
      BY <1>7, <2>1, Zenon DEF UnmarkDelete
    <3>2. s \in Slots(level0) /\ level0 \in Seq(SlotEntry)
      BY <3>1 DEF IndInv, TypeOK, Slots
    <3>3. level0[s] \in SlotEntry
      BY <3>2 DEF Slots
    <3>4. entry \in SlotEntry
      BY <3>3 DEF WithMark, SlotEntry
    <3>5. entry.label = level0[s].label
      BY DEF WithMark
    <3>6. level0' = Written(level0, s, entry)
      BY <3>1 DEF UnmarkDeletedInternal, Written
    <3> HIDE DEF s, entry
    <3> QED
      BY <1>2, <3>1, <3>2, <3>4, <3>5, <3>6, RewriteComplete
  <2> QED
    BY <1>3, <2>1
<1>8. ASSUME NEW n \in Capacities, ResizeIndex(n) PROVE CompleteInv'
  <2>1. UNCHANGED <<level0, label_lookup_, file>>
    BY <1>8 DEF ResizeIndex, Throw, table
  <2> QED
    BY <1>1, <1>2, <2>1
<1>9. CASE SaveIndex
  <2>1. UNCHANGED <<level0, label_lookup_>> /\ file'.level0 = level0
    BY <1>9 DEF SaveIndex, table
  <2>2. FileDistinct'
    BY <2>1 DEF FileDistinct, EverySlotFound
  <2> QED
    BY <1>1, <2>1, <2>2
<1>10. ASSUME NEW n \in Capacities, NEW allow \in BOOLEAN, LoadIndex(n, allow)
       PROVE  CompleteInv'
  <2>1. UNCHANGED file
    BY <1>10 DEF LoadIndex
  <2> QED
    BY <1>2, <1>10, <2>1, LoadComplete
<1>11. CASE UNCHANGED vars
  BY <1>1, <1>2, <1>11 DEF vars
<1> QED
  BY <1>5, <1>6, <1>7, <1>8, <1>9, <1>10, <1>11 DEF Next

(* No call changes the workload.                                           *)
LEMMA CarefulFixed ==
  ASSUME [Next]_vars
  PROVE  careful' = careful
<1>1. ASSUME NEW op, NEW arg, Throw(op, arg) PROVE careful' = careful
  BY <1>1 DEF Throw
<1>2. ASSUME NEW l \in Label, NEW v \in Vector, NEW replace \in BOOLEAN, AddPoint(l, v, replace)
      PROVE  careful' = careful
  <2>1. CASE ReplaceDeleted(l, v)
    BY <2>1 DEF ReplaceDeleted
  <2>2. CASE AddOrUpdate(l, v)
    BY <1>1, <2>2, Zenon DEF AddOrUpdate
  <2> QED
    BY <1>1, <1>2, <2>1, <2>2, Zenon DEF AddPoint
<1>3. ASSUME NEW l \in Label, MarkDelete(l) \/ UnmarkDelete(l) PROVE careful' = careful
  BY <1>1, <1>3, Zenon DEF MarkDelete, UnmarkDelete
<1>4. ASSUME NEW n \in Capacities, ResizeIndex(n) PROVE careful' = careful
  BY <1>1, <1>4, Zenon DEF ResizeIndex
<1>5. CASE SaveIndex
  BY <1>5 DEF SaveIndex
<1>6. ASSUME NEW n \in Capacities, NEW allow \in BOOLEAN, LoadIndex(n, allow)
      PROVE  careful' = careful
  BY <1>6 DEF LoadIndex
<1>7. CASE UNCHANGED vars
  BY <1>7 DEF vars
<1> QED
  BY <1>2, <1>3, <1>4, <1>5, <1>6, <1>7 DEF Next

(* When callers pass replaceDeleted with new labels only, every slot is    *)
(* the slot its label leads to, across updates, deletions, replacements    *)
(* and reloads: no label twice, no point out of reach, and loadIndex       *)
(* rebuilds exactly the table that was saved.                              *)
THEOREM LookupCompleteHolds == Spec => []LookupComplete
<1> DEFINE Inv == IndInv /\ (careful => CompleteInv)
<1>1. Init => Inv
  BY InitInd, InitComplete
<1>2. Inv /\ [Next]_vars => Inv'
  BY StepInd, StepComplete, CarefulFixed
<1>3. Inv => LookupComplete
  BY DEF CompleteInv, LookupComplete
<1> QED
  BY <1>1, <1>2, <1>3, PTL DEF Spec

-----------------------------------------------------------------------------
(* What a call may do to the slots.                                        *)

(* The step of LiveSlotsKept. *)
SlotsKept ==
  reply'.op # "load" =>
    \A s \in Slots(level0) :
      /\ s \in Slots(level0')
      /\ level0'[s] # level0[s] =>
           \/ reply'.arg = level0[s].label
           \/ reply'.op = "add" /\ level0[s].deleted

(* One slot is written, in a call that names its label or takes it because *)
(* it is deleted.                                                          *)
LEMMA WriteKeepsOthers ==
  ASSUME IndInv, NEW s \in Slots(level0), NEW entry \in SlotEntry,
         level0' = Written(level0, s, entry),
         reply'.arg = level0[s].label \/ (reply'.op = "add" /\ level0[s].deleted)
  PROVE  SlotsKept
<1>1. level0 \in Seq(SlotEntry) /\ s \in Slots(level0)
  BY DEF IndInv, TypeOK
<1>2. /\ Len(level0') = Len(level0)
      /\ \A t \in Slots(level0) : t # s => level0'[t] = level0[t]
  <2> DEFINE written == Written(level0, s, entry)
  <2>1. /\ Len(written) = Len(level0)
        /\ written[s] = entry
        /\ \A t \in Slots(level0) : t # s => written[t] = level0[t]
    BY <1>1, MarkedAfterWrite
  <2>2. level0' = written
    OBVIOUS
  <2> HIDE DEF written
  <2> QED
    BY <2>1, <2>2
<1>3. Slots(level0') = Slots(level0)
  BY <1>2 DEF Slots
<1> QED
  BY <1>2, <1>3 DEF SlotsKept

LEMMA SameLayerKeeps ==
  ASSUME UNCHANGED level0
  PROVE  SlotsKept
BY DEF SlotsKept

LEMMA AddKeepsSlots ==
  ASSUME IndInv, NEW l \in Label, NEW v \in Vector, AddOrUpdate(l, v)
  PROVE  SlotsKept
<1> DEFINE s == label_lookup_[l]
<1>1. CASE Throw("add", l)
  BY <1>1, SameLayerKeeps DEF Throw
<1>2. CASE s # 0 /\ UpdateExisting(l, v) /\ Returns("add", l, TRUE)
  <2> DEFINE entry == LiveEntry(level0[s].label, v)
  <2>1. s \in Slots(level0) /\ level0 \in Seq(SlotEntry) /\ level0[s].label = l
    BY <1>2 DEF IndInv, TypeOK, LookupSound, Slots
  <2>2. entry \in SlotEntry
    BY <2>1 DEF LiveEntry, SlotEntry
  <2>3. level0' = Written(level0, s, entry)
    BY <1>2 DEF Written, UpdateExisting, UnmarkDeletedInternal
  <2>4. reply'.arg = level0[s].label
    BY <1>2, <2>1 DEF Returns
  <2> HIDE DEF s, entry
  <2> QED
    BY <2>1, <2>2, <2>3, <2>4, WriteKeepsOthers
<1>3. CASE Append1(l, v)
  <2> DEFINE entry == LiveEntry(l, v)
  <2>1. level0 \in Seq(SlotEntry) /\ entry \in SlotEntry /\ ~entry.deleted
    BY DEF IndInv, TypeOK, LiveEntry, SlotEntry
  <2>2. level0' = Longer(level0, entry)
    BY <1>3 DEF Append1, Longer
  <2> HIDE DEF entry
  <2>3. /\ Len(level0') = Len(level0) + 1
        /\ \A t \in Slots(level0) : level0'[t] = level0[t]
    BY <2>1, <2>2, MarkedAfterAppend
  <2>4. Slots(level0) \subseteq Slots(level0')
    BY <2>1, <2>3 DEF Slots
  <2> QED
    BY <2>3, <2>4 DEF SlotsKept
<1> QED
  BY <1>1, <1>2, <1>3, Zenon DEF AddOrUpdate

LEMMA ReplaceKeepsSlots ==
  ASSUME IndInv, NEW l \in Label, NEW v \in Vector, ReplaceDeleted(l, v)
  PROVE  SlotsKept
<1>1. PICK s \in deleted_elements :
        UnmarkDeletedInternal(s, LiveEntry(l, v)) /\ Returns("add", l, TRUE)
  BY DEF ReplaceDeleted
<1>2. s \in Slots(level0) /\ level0[s].deleted
  BY DEF IndInv, TypeOK, FreeListExact, Marked
<1>3. LiveEntry(l, v) \in SlotEntry
  BY DEF LiveEntry, SlotEntry
<1>4. level0' = Written(level0, s, LiveEntry(l, v))
  BY <1>1 DEF Written, UnmarkDeletedInternal
<1>5. reply'.op = "add"
  BY <1>1 DEF Returns
<1> QED
  BY <1>2, <1>3, <1>4, <1>5, WriteKeepsOthers

LEMMA MarkKeepsSlots ==
  ASSUME IndInv, NEW l \in Label, MarkDelete(l) \/ UnmarkDelete(l)
  PROVE  SlotsKept
<1> DEFINE s == label_lookup_[l]
<1>1. CASE Throw("mark", l) \/ Throw("unmark", l)
  BY <1>1, SameLayerKeeps DEF Throw
<1>2. ASSUME NEW mark \in BOOLEAN, s # 0,
             level0' = Written(level0, s, WithMark(level0[s], mark)),
             reply'.arg = l
      PROVE  SlotsKept
  <2>1. s \in Slots(level0) /\ level0 \in Seq(SlotEntry) /\ level0[s].label = l
    BY <1>2 DEF IndInv, TypeOK, LookupSound, Slots
  <2>2. level0[s] \in SlotEntry
    BY <2>1 DEF Slots
  <2>3. WithMark(level0[s], mark) \in SlotEntry
    BY <2>2 DEF WithMark, SlotEntry
  <2>4. reply'.arg = level0[s].label
    BY <1>2, <2>1
  <2> HIDE DEF s
  <2> QED
    BY <1>2, <2>1, <2>3, <2>4, WriteKeepsOthers
<1>3. CASE s # 0 /\ MarkDeletedInternal(s) /\ Returns("mark", l, TRUE)
  BY <1>2, <1>3 DEF MarkDeletedInternal, Written, Returns
<1>4. CASE /\ s # 0
           /\ UnmarkDeletedInternal(s, WithMark(level0[s], FALSE))
           /\ Returns("unmark", l, TRUE)
  BY <1>2, <1>4 DEF UnmarkDeletedInternal, Written, Returns
<1> QED
  BY <1>1, <1>3, <1>4, Zenon DEF MarkDelete, UnmarkDelete

(* A live point leaves its slot only for a call that names it: addPoint    *)
(* replaces deleted points only, and no call takes a slot away, whatever   *)
(* the callers pass (hnswalg.h, addPoint, updatePoint, markDelete,         *)
(* unmarkDelete, resizeIndex).                                             *)
THEOREM ReplacementSparesLive == Spec => LiveSlotsKept
<1>1. IndInv /\ [Next]_vars => [SlotsKept]_vars
  <2> SUFFICES ASSUME IndInv, Next PROVE SlotsKept
    OBVIOUS
  <2>1. ASSUME NEW l \in Label, NEW v \in Vector, NEW replace \in BOOLEAN,
               AddPoint(l, v, replace)
        PROVE  SlotsKept
    <3>1. Throw("add", l) \/ ReplaceDeleted(l, v) \/ AddOrUpdate(l, v)
      BY <2>1, Zenon DEF AddPoint
    <3>2. CASE Throw("add", l)
      BY <3>2, SameLayerKeeps DEF Throw
    <3> QED
      BY <3>1, <3>2, AddKeepsSlots, ReplaceKeepsSlots
  <2>2. ASSUME NEW n \in Capacities, ResizeIndex(n) PROVE SlotsKept
    BY <2>2, SameLayerKeeps DEF ResizeIndex, Throw, table
  <2>3. CASE SaveIndex
    BY <2>3, SameLayerKeeps DEF SaveIndex, table
  <2>4. ASSUME NEW n \in Capacities, NEW allow \in BOOLEAN, LoadIndex(n, allow)
        PROVE  SlotsKept
    BY <2>4 DEF LoadIndex, Returns, SlotsKept
  <2> QED
    BY <2>1, <2>2, <2>3, <2>4, MarkKeepsSlots DEF Next
<1> QED
  BY <1>1, TableInvariant, PTL DEF Spec, LiveSlotsKept, SlotsKept

-----------------------------------------------------------------------------
(* The refinement of LabelIndex.                                           *)

(* What LabelIndex sees of a slot's entry, and of a base layer whose table *)
(* leads to slots carrying the label.                                      *)
View(entry) == [present |-> TRUE, data |-> entry.data, deleted |-> entry.deleted]

Sound(lookup, layer) ==
  /\ lookup \in [Label -> 0..Len(layer)]
  /\ \A l \in Label : lookup[l] # 0 => layer[lookup[l]].label = l

Complete(lookup, layer) == \A s \in Slots(layer) : lookup[layer[s].label] = s

LEMMA VisibleAt ==
  ASSUME NEW lookup, NEW layer, NEW l \in Label
  PROVE  /\ lookup[l] = 0 => Visible(lookup, layer)[l] = Promise!Absent
         /\ lookup[l] # 0 => Visible(lookup, layer)[l] = View(layer[lookup[l]])
         /\ Visible(lookup, layer)[l] # Promise!Absent <=> lookup[l] # 0
BY DEF Visible, View, Promise!Absent

(* The labels seen and the slots count the same: each slot is the slot of  *)
(* its label and the other way around.                                     *)
LEMMA SizeIsLen ==
  ASSUME NEW layer \in Seq(SlotEntry), NEW lookup,
         Sound(lookup, layer), Complete(lookup, layer)
  PROVE  Promise!Size(Visible(lookup, layer)) = Len(layer)
<1> DEFINE P == {l \in Label : Visible(lookup, layer)[l] # Promise!Absent}
           f == [s \in 1..Len(layer) |-> layer[s].label]
<1>0. Len(layer) \in Nat /\ Slots(layer) = 1..Len(layer)
  BY DEF Slots
<1>1. P = {l \in Label : lookup[l] # 0}
  BY VisibleAt
<1>2. ASSUME NEW s \in 1..Len(layer)
      PROVE  layer[s].label \in P /\ lookup[layer[s].label] = s
  <2>1. layer[s] \in SlotEntry
    BY <1>0
  <2>2. layer[s].label \in Label
    BY <2>1 DEF SlotEntry
  <2>3. lookup[layer[s].label] = s /\ s # 0
    BY <1>0 DEF Complete
  <2> QED
    BY <1>1, <2>2, <2>3
<1>3. f \in Injection(1..Len(layer), P)
  BY <1>2 DEF Injection, IsInjective
<1>4. f \in Surjection(1..Len(layer), P)
  <2>1. ASSUME NEW l \in P PROVE \E s \in 1..Len(layer) : f[s] = l
    <3>1. lookup[l] \in 1..Len(layer) /\ layer[lookup[l]].label = l
      BY <1>0, <1>1 DEF Sound
    <3> QED
      BY <3>1
  <2>2. f \in [1..Len(layer) -> P]
    BY <1>2
  <2> HIDE DEF P, f
  <2> QED
    BY <2>1, <2>2 DEF Surjection
<1>5. ExistsBijection(1..Len(layer), P)
  <2> HIDE DEF P, f
  <2> QED
    BY <1>3, <1>4 DEF ExistsBijection, Bijection
<1>6. IsFiniteSet(1..Len(layer)) /\ Cardinality(1..Len(layer)) = Len(layer)
  BY <1>0, FS_Interval
<1>7. Cardinality(P) = Len(layer)
  <2> HIDE DEF P
  <2> QED
    BY <1>5, <1>6, FS_Bijection
<1> QED
  BY <1>7, Zenon DEF Promise!Size, Promise!Cardinality, Cardinality, Promise!IsFiniteSet, IsFiniteSet

(* Loading rebuilds a complete table as it was.                            *)
LEMMA RebuiltIsSame ==
  ASSUME NEW layer \in Seq(SlotEntry), NEW lookup,
         Sound(lookup, layer), Complete(lookup, layer)
  PROVE  Rebuilt(layer) = lookup
<1> DEFINE r == Rebuilt(layer)
<1>1. /\ r \in [Label -> 0..Len(layer)]
      /\ \A l \in Label : r[l] # 0 => layer[r[l]].label = l
      /\ \A s \in Slots(layer) :
           r[layer[s].label] \in Slots(layer)
           /\ layer[r[layer[s].label]].label = layer[s].label
  BY RebuiltFacts
<1> HIDE DEF r
<1>2. Len(layer) \in Nat
  OBVIOUS
<1>3. ASSUME NEW l \in Label PROVE r[l] = lookup[l]
  <2>1. CASE r[l] # 0
    <3>1. r[l] \in Slots(layer) /\ layer[r[l]].label = l
      BY <1>1, <1>2, <2>1 DEF Slots
    <3> QED
      BY <3>1 DEF Complete
  <2>2. CASE lookup[l] # 0
    <3>1. lookup[l] \in Slots(layer) /\ layer[lookup[l]].label = l
      BY <1>2, <2>2 DEF Sound, Slots
    <3>2. r[l] \in Slots(layer) /\ layer[r[l]].label = l
      BY <1>1, <3>1
    <3> QED
      BY <3>2 DEF Complete
  <2> QED
    BY <2>1, <2>2
<1>4. lookup \in [Label -> 0..Len(layer)]
  BY DEF Sound
<1>5. r = lookup
  BY <1>1, <1>3, <1>4
<1> QED
  BY <1>5 DEF r

LEMMA NowSound ==
  ASSUME IndInv
  PROVE  Sound(label_lookup_, level0) /\ level0 \in Seq(SlotEntry)
BY DEF IndInv, TypeOK, LookupSound, Sound

(* What LabelIndex asks about a label.                                     *)
LEMMA SeenStates ==
  ASSUME IndInv, NEW l \in Label
  PROVE  /\ Promise!IsPresent(l) <=> label_lookup_[l] # 0
         /\ Promise!IsDeleted(l) <=>
              label_lookup_[l] # 0 /\ level0[label_lookup_[l]].deleted
<1>1. Promise!IsPresent(l) <=> label_lookup_[l] # 0
  BY VisibleAt DEF Promise!IsPresent
<1>2. label_lookup_[l] # 0 =>
        Visible(label_lookup_, level0)[l].deleted = level0[label_lookup_[l]].deleted
  BY DEF Visible
<1> QED
  BY <1>1, <1>2 DEF Promise!IsDeleted

(* The slot of a label is written and keeps its label.                     *)
LEMMA RewriteSeen ==
  ASSUME IndInv, NEW l \in Label, label_lookup_[l] # 0,
         NEW entry \in SlotEntry, entry.label = l,
         level0' = Written(level0, label_lookup_[l], entry), UNCHANGED label_lookup_
  PROVE  Visible(label_lookup_, level0)' =
           [Visible(label_lookup_, level0) EXCEPT ![l] = View(entry)]
<1> DEFINE s == label_lookup_[l]
<1>1. level0 \in Seq(SlotEntry) /\ s \in Slots(level0)
  BY DEF IndInv, TypeOK, Slots
<1>2. /\ level0'[s] = entry
      /\ \A t \in Slots(level0) : t # s => level0'[t] = level0[t]
  <2> HIDE DEF s
  <2> QED
    BY <1>1, MarkedAfterWrite DEF s
<1>3. ASSUME NEW m \in Label
      PROVE  Visible(label_lookup_', level0')[m] =
               IF m = l THEN View(entry) ELSE Visible(label_lookup_, level0)[m]
  <2>1. CASE m = l
    BY <1>2, <2>1, VisibleAt
  <2>2. CASE m # l /\ label_lookup_[m] = 0
    BY <2>2, VisibleAt
  <2>3. CASE m # l /\ label_lookup_[m] # 0
    <3>1. /\ label_lookup_[m] \in Slots(level0)
          /\ level0[label_lookup_[m]].label = m
          /\ level0[s].label = l
      BY <2>3 DEF IndInv, TypeOK, LookupSound, Slots
    <3>2. level0'[label_lookup_[m]] = level0[label_lookup_[m]]
      BY <1>2, <2>3, <3>1
    <3> QED
      BY <2>3, <3>2, VisibleAt
  <2> QED
    BY <2>1, <2>2, <2>3
<1>4. /\ DOMAIN Visible(label_lookup_, level0) = Label
      /\ DOMAIN Visible(label_lookup_', level0') = Label
      /\ Visible(label_lookup_, level0) = [m \in Label |-> Visible(label_lookup_, level0)[m]]
      /\ Visible(label_lookup_', level0') = [m \in Label |-> Visible(label_lookup_', level0')[m]]
  BY DEF Visible
<1>5. Visible(label_lookup_', level0') =
        [Visible(label_lookup_, level0) EXCEPT ![l] = View(entry)]
  BY <1>3, <1>4
<1> QED
  BY <1>5

LEMMA AppendSeen ==
  ASSUME IndInv, NEW l \in Label, NEW v \in Vector,
         label_lookup_[l] = 0, Append1(l, v)
  PROVE  Visible(label_lookup_, level0)' =
           [Visible(label_lookup_, level0) EXCEPT ![l] = Promise!Live(v)]
<1> DEFINE entry == LiveEntry(l, v)
           n == Len(level0) + 1
<1>1. level0 \in Seq(SlotEntry) /\ Len(level0) \in Nat /\ n # 0
  BY DEF IndInv, TypeOK
<1>2. entry \in SlotEntry /\ ~entry.deleted /\ View(entry) = Promise!Live(v)
  BY DEF LiveEntry, SlotEntry, View, Promise!Live
<1>3. level0' = Longer(level0, entry)
  BY DEF Longer, Append1
<1>4. /\ label_lookup_ \in [Label -> 0..Len(level0)]
      /\ label_lookup_' = [label_lookup_ EXCEPT ![l] = n]
  BY DEF Append1, IndInv, TypeOK
<1>5. /\ level0'[n] = entry
      /\ \A t \in Slots(level0) : level0'[t] = level0[t]
  <2> HIDE DEF entry
  <2> QED
    BY <1>1, <1>2, <1>3, MarkedAfterAppend
<1> HIDE DEF entry, n
<1>6. ASSUME NEW m \in Label
      PROVE  Visible(label_lookup_', level0')[m] =
               IF m = l THEN Promise!Live(v) ELSE Visible(label_lookup_, level0)[m]
  <2>1. CASE m = l
    <3>1. label_lookup_'[m] = n
      BY <1>4, <2>1
    <3> QED
      BY <1>1, <1>2, <1>5, <2>1, <3>1, VisibleAt
  <2>2. CASE m # l
    <3>1. label_lookup_'[m] = label_lookup_[m]
      BY <1>4, <2>2
    <3>2. label_lookup_[m] # 0 => label_lookup_[m] \in Slots(level0)
      BY <1>1, <1>4 DEF Slots
    <3>3. CASE label_lookup_[m] = 0
      BY <2>2, <3>1, <3>3, VisibleAt
    <3>4. CASE label_lookup_[m] # 0
      BY <1>5, <2>2, <3>1, <3>2, <3>4, VisibleAt
    <3> QED
      BY <3>3, <3>4
  <2> QED
    BY <2>1, <2>2
<1>7. /\ DOMAIN Visible(label_lookup_, level0) = Label
      /\ Visible(label_lookup_, level0) = [m \in Label |-> Visible(label_lookup_, level0)[m]]
      /\ Visible(label_lookup_', level0') = [m \in Label |-> Visible(label_lookup_', level0')[m]]
  BY DEF Visible
<1>8. Visible(label_lookup_', level0') =
        [Visible(label_lookup_, level0) EXCEPT ![l] = Promise!Live(v)]
  BY <1>6, <1>7
<1> QED
  BY <1>8

(* The label that had the slot is seen no more, the new one is seen live.  *)
LEMMA ReplaceSeen ==
  ASSUME IndInv, EverySlotFound, NEW l \in Label, NEW v \in Vector,
         label_lookup_[l] = 0, ReplaceDeleted(l, v)
  PROVE  Promise!Replace(l, v)
<1>1. PICK s \in deleted_elements :
        /\ label_lookup_' = [label_lookup_ EXCEPT ![level0[s].label] = 0, ![l] = s]
        /\ UnmarkDeletedInternal(s, LiveEntry(l, v))
        /\ Returns("add", l, TRUE)
        /\ UNCHANGED <<max_elements_, allow_replace_deleted_, file>>
  BY DEF ReplaceDeleted
<1> DEFINE entry == LiveEntry(l, v)
           d == level0[s].label
<1>2. s \in Slots(level0) /\ level0 \in Seq(SlotEntry) /\ level0[s].deleted
  BY DEF IndInv, TypeOK, FreeListExact, Marked
<1>3. entry \in SlotEntry /\ View(entry) = Promise!Live(v)
  BY DEF LiveEntry, SlotEntry, View, Promise!Live
<1>4. level0' = Written(level0, s, entry)
  BY <1>1 DEF Written, UnmarkDeletedInternal
<1>5. level0[s] \in SlotEntry
  BY <1>2 DEF Slots
<1>6. d \in Label /\ label_lookup_[d] = s /\ s # 0
  BY <1>2, <1>5 DEF SlotEntry, EverySlotFound, Slots
<1> HIDE DEF entry
<1>7. /\ level0'[s] = entry
      /\ \A t \in Slots(level0) : t # s => level0'[t] = level0[t]
  BY <1>2, <1>3, <1>4, MarkedAfterWrite
<1>8. Promise!IsDeleted(d)
  BY <1>2, <1>6, SeenStates
<1>9. d # l /\ label_lookup_ \in [Label -> 0..Len(level0)]
  BY <1>6 DEF IndInv, TypeOK
<1>10. label_lookup_' = [label_lookup_ EXCEPT ![d] = 0, ![l] = s]
  BY <1>1
<1> HIDE DEF d
<1>11. ASSUME NEW m \in Label
       PROVE  Visible(label_lookup_', level0')[m] =
                IF m = l THEN Promise!Live(v)
                ELSE IF m = d THEN Promise!Absent
                ELSE Visible(label_lookup_, level0)[m]
  <2>1. CASE m = l
    <3>1. label_lookup_'[m] = s
      BY <1>9, <1>10, <2>1
    <3> QED
      BY <1>3, <1>6, <1>7, <2>1, <3>1, VisibleAt
  <2>2. CASE m = d
    <3>1. label_lookup_'[m] = 0 /\ m # l
      BY <1>6, <1>9, <1>10, <2>2
    <3> QED
      BY <2>2, <3>1, VisibleAt
  <2>3. CASE m # l /\ m # d
    <3>1. label_lookup_'[m] = label_lookup_[m]
      BY <1>9, <1>10, <2>3
    <3>2. label_lookup_[m] # 0 =>
            label_lookup_[m] \in Slots(level0) /\ level0[label_lookup_[m]].label = m
      BY <1>9 DEF IndInv, LookupSound, Slots
    <3>3. CASE label_lookup_[m] = 0
      BY <2>3, <3>1, <3>3, VisibleAt
    <3>4. CASE label_lookup_[m] # 0
      <4>1. label_lookup_[m] # s
        BY <2>3, <3>2, <3>4 DEF d
      <4>2. level0'[label_lookup_'[m]] = level0[label_lookup_[m]]
        BY <1>7, <3>1, <3>2, <3>4, <4>1
      <4> QED
        BY <2>3, <3>1, <3>4, <4>2, VisibleAt
    <3> QED
      BY <3>3, <3>4
  <2> QED
    BY <2>1, <2>2, <2>3
<1>12. /\ Visible(label_lookup_, level0) = [m \in Label |-> Visible(label_lookup_, level0)[m]]
       /\ Visible(label_lookup_', level0') = [m \in Label |-> Visible(label_lookup_', level0')[m]]
       /\ DOMAIN Visible(label_lookup_, level0) = Label
  BY DEF Visible
<1>13. Visible(label_lookup_', level0') =
         [Visible(label_lookup_, level0) EXCEPT ![d] = Promise!Absent, ![l] = Promise!Live(v)]
  <2> DEFINE now  == Visible(label_lookup_, level0)
             next == Visible(label_lookup_', level0')
  <2>1. \A m \in Label : next[m] = IF m = l THEN Promise!Live(v)
                                   ELSE IF m = d THEN Promise!Absent ELSE now[m]
    BY <1>11
  <2>2. /\ now = [m \in Label |-> now[m]]
        /\ next = [m \in Label |-> next[m]]
        /\ DOMAIN now = Label
    BY <1>12
  <2> HIDE DEF now, next
  <2>3. next = [now EXCEPT ![d] = Promise!Absent, ![l] = Promise!Live(v)]
    BY <1>6, <1>9, <2>1, <2>2
  <2> QED
    BY <2>3 DEF now, next
<1>14. /\ Promise!Returns("add", l, TRUE)
       /\ UNCHANGED <<max_elements_, allow_replace_deleted_, file>>
  BY <1>1 DEF Returns, Promise!Returns
<1> QED
  BY <1>6, <1>8, <1>13, <1>14 DEF Promise!Replace

LEMMA RefusalSeen ==
  ASSUME NEW op, NEW arg, Throw(op, arg)
  PROVE  Promise!Refuse(op, arg)
BY DEF Throw, Returns, Promise!Refuse, Promise!Returns

LEMMA EntrySeen ==
  ASSUME NEW op, NEW l \in Label, NEW entry,
         Visible(label_lookup_, level0)' =
           [Visible(label_lookup_, level0) EXCEPT ![l] = entry],
         Returns(op, l, TRUE),
         UNCHANGED <<max_elements_, allow_replace_deleted_, file>>
  PROVE  Promise!SetEntry(op, l, entry)
BY DEF Returns, Promise!SetEntry, Promise!Returns

LEMMA SeenSize ==
  ASSUME IndInv, EverySlotFound
  PROVE  Promise!Size(Visible(label_lookup_, level0)) = Len(level0)
<1>1. Complete(label_lookup_, level0)
  BY DEF EverySlotFound, Complete
<1> QED
  BY <1>1, NowSound, SizeIsLen

LEMMA AddOrUpdateSeen ==
  ASSUME IndInv, EverySlotFound, NEW l \in Label, NEW v \in Vector,
         AddOrUpdate(l, v)
  PROVE  Promise!AddOrUpdate(l, v)
<1> DEFINE s == label_lookup_[l]
           refused == \/ s # 0 /\ allow_replace_deleted_ /\ level0[s].deleted
                      \/ s = 0 /\ Len(level0) >= max_elements_
<1>1. CASE refused
  <2>1. Promise!Refuse("add", l)
    BY <1>1, RefusalSeen, Zenon DEF AddOrUpdate
  <2> QED
    BY <1>1, <2>1, SeenStates, SeenSize, Zenon DEF Promise!AddOrUpdate
<1>2. CASE ~refused /\ s # 0
  <2> DEFINE entry == LiveEntry(level0[s].label, v)
  <2>1. /\ UpdateExisting(l, v)
        /\ Returns("add", l, TRUE)
        /\ UNCHANGED <<max_elements_, allow_replace_deleted_, file>>
    BY <1>2, Zenon DEF AddOrUpdate
  <2>2. s \in Slots(level0) /\ level0 \in Seq(SlotEntry) /\ level0[s].label = l
    BY <1>2 DEF IndInv, TypeOK, LookupSound, Slots
  <2>3. entry \in SlotEntry /\ entry.label = l /\ View(entry) = Promise!Live(v)
    BY <2>2 DEF LiveEntry, SlotEntry, View, Promise!Live
  <2>4. level0' = Written(level0, s, entry) /\ UNCHANGED label_lookup_
    BY <2>1 DEF Written, UpdateExisting, UnmarkDeletedInternal
  <2> HIDE DEF entry
  <2>5. Visible(label_lookup_, level0)' =
          [Visible(label_lookup_, level0) EXCEPT ![l] = View(entry)]
    BY <1>2, <2>3, <2>4, RewriteSeen
  <2>6. Promise!SetEntry("add", l, Promise!Live(v))
    BY <2>1, <2>3, <2>5, EntrySeen
  <2>7. Promise!IsPresent(l) /\ ~(allow_replace_deleted_ /\ Promise!IsDeleted(l))
    BY <1>2, SeenStates
  <2> QED
    BY <2>6, <2>7, Zenon DEF Promise!AddOrUpdate
<1>3. CASE ~refused /\ s = 0
  <2>1. /\ Append1(l, v)
        /\ Returns("add", l, TRUE)
        /\ UNCHANGED <<max_elements_, allow_replace_deleted_, file>>
    BY <1>3, Zenon DEF AddOrUpdate
  <2>2. Promise!SetEntry("add", l, Promise!Live(v))
    BY <1>3, <2>1, AppendSeen, EntrySeen
  <2>3. ~Promise!IsPresent(l)
    BY <1>3, SeenStates
  <2>4. ~(Promise!Size(Visible(label_lookup_, level0)) >= max_elements_)
    BY <1>3, SeenSize
  <2> QED
    BY <2>2, <2>3, <2>4, Zenon DEF Promise!AddOrUpdate
<1> QED
  BY <1>1, <1>2, <1>3

LEMMA AddSeen ==
  ASSUME careful, IndInv, EverySlotFound, NEW l \in Label, NEW v \in Vector,
         NEW replace \in BOOLEAN, CallersPass(l, replace), AddPoint(l, v, replace)
  PROVE  Promise!Add(l, v, replace)
<1>1. CASE replace /\ ~allow_replace_deleted_
  <2>1. Throw("add", l)
    BY <1>1, Zenon DEF AddPoint
  <2> QED
    BY <1>1, <2>1, RefusalSeen, Zenon DEF Promise!Add
<1>2. CASE replace /\ allow_replace_deleted_ /\ deleted_elements # {}
  <2>1. ReplaceDeleted(l, v)
    BY <1>2, Zenon DEF AddPoint
  <2>2. label_lookup_[l] = 0
    BY <1>2 DEF CallersPass
  <2>3. Promise!Replace(l, v)
    BY <2>1, <2>2, ReplaceSeen
  <2>4. \E d \in Label : Promise!IsDeleted(d)
    BY <2>3 DEF Promise!Replace
  <2>5. ~Promise!IsPresent(l)
    BY <2>2, SeenStates
  <2> QED
    BY <1>2, <2>3, <2>4, <2>5, Zenon DEF Promise!Add
<1>3. CASE replace /\ allow_replace_deleted_ /\ deleted_elements = {}
  <2>1. Promise!AddOrUpdate(l, v)
    BY <1>3, AddOrUpdateSeen, Zenon DEF AddPoint
  <2>2. ASSUME NEW d \in Label PROVE ~Promise!IsDeleted(d)
    <3>1. ASSUME Promise!IsDeleted(d) PROVE label_lookup_[d] \in Marked(level0)
      <4>1. label_lookup_[d] # 0 /\ level0[label_lookup_[d]].deleted
        BY <3>1, SeenStates
      <4>2. label_lookup_[d] \in Slots(level0)
        BY <4>1 DEF IndInv, TypeOK, Slots
      <4> QED
        BY <4>1, <4>2 DEF Marked
    <3>2. Marked(level0) = {}
      BY <1>3 DEF IndInv, FreeListExact
    <3> QED
      BY <3>1, <3>2
  <2> QED
    BY <1>3, <2>1, <2>2, Zenon DEF Promise!Add
<1>4. CASE ~replace
  <2>1. Promise!AddOrUpdate(l, v)
    BY <1>4, AddOrUpdateSeen, Zenon DEF AddPoint
  <2> QED
    BY <1>4, <2>1, Zenon DEF Promise!Add
<1> QED
  BY <1>1, <1>2, <1>3, <1>4

LEMMA DeletedSet ==
  ASSUME NEW entry, NEW mark
  PROVE  [present |-> TRUE, data |-> entry.data, deleted |-> mark] =
           [View(entry) EXCEPT !.deleted = mark]
<1> DEFINE present == TRUE
           data == entry.data
           was == entry.deleted
<1> HIDE DEF present, data, was
<1>1. [present |-> present, data |-> data, deleted |-> mark] =
        [[present |-> present, data |-> data, deleted |-> was] EXCEPT !.deleted = mark]
  OBVIOUS
<1> QED
  BY <1>1 DEF present, data, was, View

(* Marking and unmarking set one field of the label's entry.               *)
LEMMA MarkSeen ==
  ASSUME IndInv, NEW l \in Label, NEW mark \in BOOLEAN, label_lookup_[l] # 0,
         level0' = Written(level0, label_lookup_[l],
                           WithMark(level0[label_lookup_[l]], mark)),
         UNCHANGED label_lookup_
  PROVE  Visible(label_lookup_, level0)' =
           [Visible(label_lookup_, level0) EXCEPT
              ![l] = [Visible(label_lookup_, level0)[l] EXCEPT !.deleted = mark]]
<1> DEFINE s == label_lookup_[l]
           entry == WithMark(level0[s], mark)
<1>1. s \in Slots(level0) /\ level0 \in Seq(SlotEntry) /\ level0[s].label = l
  BY DEF IndInv, TypeOK, LookupSound, Slots
<1>2. level0[s] \in SlotEntry
  BY <1>1 DEF Slots
<1>3. entry \in SlotEntry /\ entry.label = l
  BY <1>1, <1>2 DEF WithMark, SlotEntry
<1>4. View(entry) = [View(level0[s]) EXCEPT !.deleted = mark]
  <2>1. View(entry) = [present |-> TRUE, data |-> level0[s].data, deleted |-> mark]
    BY DEF View, WithMark
  <2>2. [present |-> TRUE, data |-> level0[s].data, deleted |-> mark] =
          [View(level0[s]) EXCEPT !.deleted = mark]
    BY DeletedSet
  <2> QED
    BY <2>1, <2>2, Zenon
<1>5. Visible(label_lookup_, level0)[l] = View(level0[s])
  BY VisibleAt
<1>6. level0' = Written(level0, label_lookup_[l], entry)
  OBVIOUS
<1> HIDE DEF entry
<1>7. Visible(label_lookup_, level0)' =
        [Visible(label_lookup_, level0) EXCEPT ![l] = View(entry)]
  BY <1>3, <1>6, RewriteSeen
<1> QED
  BY <1>4, <1>5, <1>7

LEMMA MarkDeletedSeen ==
  ASSUME IndInv, NEW l \in Label, MarkDelete(l)
  PROVE  Promise!MarkDeleted(l)
<1> DEFINE s == label_lookup_[l]
<1>1. CASE s = 0 \/ level0[s].deleted
  <2>1. Throw("mark", l)
    BY <1>1, Zenon DEF MarkDelete
  <2>2. ~(Promise!IsPresent(l) /\ ~Promise!IsDeleted(l))
    BY <1>1, SeenStates
  <2> QED
    BY <2>1, <2>2, RefusalSeen, Zenon DEF Promise!MarkDeleted
<1>2. CASE s # 0 /\ ~level0[s].deleted
  <2>1. /\ MarkDeletedInternal(s)
        /\ Returns("mark", l, TRUE)
        /\ UNCHANGED <<label_lookup_, max_elements_, allow_replace_deleted_, file>>
    BY <1>2, Zenon DEF MarkDelete
  <2>2. level0' = Written(level0, s, WithMark(level0[s], TRUE)) /\ UNCHANGED label_lookup_
    BY <2>1 DEF MarkDeletedInternal, Written
  <2>3. Promise!SetEntry("mark", l,
          [Visible(label_lookup_, level0)[l] EXCEPT !.deleted = TRUE])
    BY <1>2, <2>1, <2>2, MarkSeen, EntrySeen
  <2>4. Promise!IsPresent(l) /\ ~Promise!IsDeleted(l)
    BY <1>2, SeenStates
  <2> QED
    BY <2>3, <2>4, Zenon DEF Promise!MarkDeleted
<1> QED
  BY <1>1, <1>2

LEMMA UnmarkDeletedSeen ==
  ASSUME IndInv, NEW l \in Label, UnmarkDelete(l)
  PROVE  Promise!UnmarkDeleted(l)
<1> DEFINE s == label_lookup_[l]
<1>1. CASE s = 0 \/ ~level0[s].deleted
  <2>1. Throw("unmark", l)
    BY <1>1, Zenon DEF UnmarkDelete
  <2>2. ~Promise!IsDeleted(l)
    BY <1>1, SeenStates
  <2> QED
    BY <2>1, <2>2, RefusalSeen, Zenon DEF Promise!UnmarkDeleted
<1>2. CASE s # 0 /\ level0[s].deleted
  <2>1. /\ UnmarkDeletedInternal(s, WithMark(level0[s], FALSE))
        /\ Returns("unmark", l, TRUE)
        /\ UNCHANGED <<label_lookup_, max_elements_, allow_replace_deleted_, file>>
    BY <1>2, Zenon DEF UnmarkDelete
  <2>2. level0' = Written(level0, s, WithMark(level0[s], FALSE)) /\ UNCHANGED label_lookup_
    BY <2>1 DEF UnmarkDeletedInternal, Written
  <2>3. Promise!SetEntry("unmark", l,
          [Visible(label_lookup_, level0)[l] EXCEPT !.deleted = FALSE])
    BY <1>2, <2>1, <2>2, MarkSeen, EntrySeen
  <2>4. Promise!IsDeleted(l)
    BY <1>2, SeenStates
  <2> QED
    BY <2>3, <2>4, Zenon DEF Promise!UnmarkDeleted
<1> QED
  BY <1>1, <1>2

LEMMA ResizeSeen ==
  ASSUME IndInv, EverySlotFound, NEW n \in Capacities, ResizeIndex(n)
  PROVE  Promise!Resize(n)
<1>1. CASE n < Len(level0)
  BY <1>1, RefusalSeen, SeenSize, Zenon DEF ResizeIndex, Promise!Resize
<1>2. CASE ~(n < Len(level0))
  <2>1. /\ max_elements_' = n
        /\ Returns("resize", n, TRUE)
        /\ UNCHANGED <<table, allow_replace_deleted_, file>>
    BY <1>2, Zenon DEF ResizeIndex
  <2>2. UNCHANGED <<Visible(label_lookup_, level0), allow_replace_deleted_, file>>
    BY <2>1 DEF table
  <2>3. Promise!Returns("resize", n, TRUE)
    BY <2>1 DEF Returns, Promise!Returns
  <2>4. ~(n < Promise!Size(Visible(label_lookup_, level0)))
    BY <1>2, SeenSize
  <2> QED
    BY <2>1, <2>2, <2>3, <2>4 DEF Promise!Resize
<1> QED
  BY <1>1, <1>2

(* The file is seen as the store a load of it would give, which is the one *)
(* at hand.                                                                *)
LEMMA SaveSeen ==
  ASSUME IndInv, EverySlotFound, SaveIndex
  PROVE  Promise!Save
<1>1. Rebuilt(level0) = label_lookup_
  <2>1. Complete(label_lookup_, level0)
    BY DEF EverySlotFound, Complete
  <2> QED
    BY <2>1, NowSound, RebuiltIsSame
<1>2. /\ file'.saved
      /\ file'.level0 = level0
      /\ file'.max_elements_ = max_elements_
      /\ UNCHANGED <<level0, label_lookup_, max_elements_, allow_replace_deleted_>>
      /\ Promise!Returns("save", 0, TRUE)
  BY DEF SaveIndex, Returns, Promise!Returns, table
<1> QED
  BY <1>1, <1>2 DEF Promise!Save

(* A file without repeated labels holds as many labels as slots.           *)
LEMMA LoadSeen ==
  ASSUME IndInv, FileDistinct, NEW n \in Capacities, NEW allow \in BOOLEAN,
         LoadIndex(n, allow)
  PROVE  Promise!Load(n, allow)
<1> DEFINE layer == file.level0
           lookup == Rebuilt(layer)
<1>1. /\ file.saved
      /\ level0' = layer
      /\ max_elements_' = IF n < Len(layer) THEN file.max_elements_ ELSE n
      /\ label_lookup_' = lookup
      /\ allow_replace_deleted_' = allow
      /\ UNCHANGED file
      /\ Promise!Returns("load", n, TRUE)
  BY DEF LoadIndex, Returns, Promise!Returns
<1>2. layer \in Seq(SlotEntry)
  BY <1>1 DEF IndInv, TypeOK
<1>3. Sound(lookup, layer)
  BY <1>2, RebuiltFacts DEF Sound
<1>4. Complete(lookup, layer)
  <2>1. \A s \in Slots(layer) :
          lookup[layer[s].label] \in Slots(layer)
          /\ layer[lookup[layer[s].label]].label = layer[s].label
    BY <1>2, RebuiltFacts
  <2> QED
    BY <1>1, <2>1 DEF Complete, FileDistinct
<1>5. Promise!Size(Visible(lookup, layer)) = Len(layer)
  <2> HIDE DEF layer, lookup
  <2> QED
    BY <1>2, <1>3, <1>4, SizeIsLen
<1> QED
  BY <1>1, <1>5 DEF Promise!Load

LEMMA StepSeen ==
  ASSUME careful, IndInv, CompleteInv, Next
  PROVE  Promise!Next
<1>1. EverySlotFound /\ FileDistinct
  BY DEF CompleteInv
<1>2. ASSUME NEW l \in Label, NEW v \in Vector, NEW replace \in BOOLEAN,
             CallersPass(l, replace), AddPoint(l, v, replace)
      PROVE  Promise!Next
  BY <1>1, <1>2, AddSeen DEF Promise!Next
<1>3. ASSUME NEW l \in Label, MarkDelete(l) PROVE Promise!Next
  BY <1>3, MarkDeletedSeen DEF Promise!Next
<1>4. ASSUME NEW l \in Label, UnmarkDelete(l) PROVE Promise!Next
  BY <1>4, UnmarkDeletedSeen DEF Promise!Next
<1>5. ASSUME NEW n \in Capacities, ResizeIndex(n) PROVE Promise!Next
  BY <1>1, <1>5, ResizeSeen DEF Promise!Next
<1>6. CASE SaveIndex
  BY <1>1, <1>6, SaveSeen DEF Promise!Next
<1>7. ASSUME NEW n \in Capacities, NEW allow \in BOOLEAN, LoadIndex(n, allow)
      PROVE  Promise!Next
  BY <1>1, <1>7, LoadSeen DEF Promise!Next
<1> QED
  BY <1>2, <1>3, <1>4, <1>5, <1>6, <1>7 DEF Next

LEMMA InitSeen == Init => Promise!Init
<1> SUFFICES ASSUME Init PROVE Promise!Init
  OBVIOUS
<1>1. Visible(label_lookup_, level0) = [l \in Label |-> Promise!Absent]
  BY DEF Init, Visible, Promise!Absent
<1> QED
  BY <1>1 DEF Init, NoFile, Promise!Init

(* For callers that pass replaceDeleted with new labels only, the slot     *)
(* table is one entry per label and nothing else: every call has the       *)
(* result and the effect LabelIndex promises, for the labels it names and  *)
(* for all others, and a load gives back what was saved (hnsw.go,          *)
(* AddPoints, MarkDeleted, UnmarkDeleted, ResizeIndex, Save, Load).        *)
THEOREM TableImplementsLabelIndex == Spec => ImplementsLabelIndex
<1> DEFINE Inv == IndInv /\ (careful => CompleteInv)
<1>1. Init => Inv
  BY InitInd, InitComplete
<1>2. Inv /\ [Next]_vars => Inv'
  BY StepInd, StepComplete, CarefulFixed
<1>3. Init => Promise!Init
  BY InitSeen
<1>4. Inv /\ [Next]_vars => [careful => Promise!Next]_(Promise!vars)
  <2>1. ASSUME Inv, Next PROVE careful => Promise!Next
    BY <2>1, StepSeen
  <2>2. ASSUME UNCHANGED vars PROVE UNCHANGED Promise!vars
    BY <2>2 DEF vars, Promise!vars
  <2> QED
    BY <2>1, <2>2
<1> QED
  BY <1>1, <1>2, <1>3, <1>4, PTL DEF Spec, ImplementsLabelIndex
=============================================================================
