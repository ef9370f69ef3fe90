----------------------------- MODULE LabelTable -----------------------------
(***************************************************************************)
(* The slot table of HierarchicalNSW (hnswlib/hnswalg.h): which slot of    *)
(* the base layer holds which label, which slots are marked deleted, the   *)
(* label lookup table and the free list of deleted slots.                  *)
(*                                                                         *)
(* One call at a time: AddPoints (of one row), MarkDeleted, UnmarkDeleted  *)
(* and ResizeIndex hold the exclusive lock of hnsw.go for their whole      *)
(* length.  The rows of one batch interleave in ConcurrentAdd.             *)
(*                                                                         *)
(* Slot s of this module is internal id s - 1 of the code, so that 0 can   *)
(* stand for "not in the table"; cur_element_count is Len(level0).         *)
(***************************************************************************)
EXTENDS Integers, Sequences, FiniteSets, FiniteSetsExt

CONSTANTS
  Label,       \* the external labels callers use
  Vector,      \* the vectors as stored
  Capacities   \* the capacities passed to New, ResizeIndex and Load

(* A capacity of 0 is left out: realloc(p, 0) in resizeIndex frees the     *)
(* base layer and leaves the index unusable.                               *)
ASSUME ConstantsAssumption ==
  /\ IsFiniteSet(Label)
  /\ Capacities \subseteq Nat \ {0}

VARIABLES
  level0,                  \* the base layer: label, data, delete mark per slot
  max_elements_,           \* the capacity of the base layer
  label_lookup_,           \* label -> its slot, 0 when not in the table
  num_deleted_,            \* how many slots are marked
  deleted_elements,        \* the marked slots free to be replaced
  allow_replace_deleted_,  \* the constructor's argument
  file,                    \* the image Save wrote last
  reply,                   \* the last call and whether it returned nil
  careful                  \* do the callers pass replaceDeleted only with new labels?

table == <<level0, label_lookup_, num_deleted_, deleted_elements>>
vars  == <<level0, max_elements_, label_lookup_, num_deleted_, deleted_elements,
           allow_replace_deleted_, file, reply, careful>>

SlotEntry == [label : Label, data : Vector, deleted : BOOLEAN]

NoFile == [saved |-> FALSE]

Slots(layer)  == 1..Len(layer)
Marked(layer) == {s \in Slots(layer) : layer[s].deleted}

Returns(op, arg, ok) == reply' = [op |-> op, arg |-> arg, ok |-> ok]

(* A C++ exception, turned into a Go error; nothing was written.           *)
Throw(op, arg) ==
  /\ Returns(op, arg, FALSE)
  /\ UNCHANGED <<level0, max_elements_, label_lookup_, num_deleted_,
                 deleted_elements, allow_replace_deleted_, file, careful>>

Init ==
  /\ level0 = <<>>
  /\ max_elements_ \in Capacities
  /\ label_lookup_ = [l \in Label |-> 0]
  /\ num_deleted_ = 0
  /\ deleted_elements = {}
  /\ allow_replace_deleted_ \in BOOLEAN
  /\ file = NoFile
  /\ reply = [op |-> "new", arg |-> max_elements_, ok |-> TRUE]
  /\ careful \in BOOLEAN

-----------------------------------------------------------------------------
(* The delete mark and its accounting.                                     *)

LiveEntry(l, v) == [label |-> l, data |-> v, deleted |-> FALSE]

WithMark(entry, mark) ==
  [label |-> entry.label, data |-> entry.data, deleted |-> mark]

(* Bugs: a slot is listed although replacement is disabled; a slot that is *)
(* live again stays listed.                                                *)
MarkInternalAlwaysListed(s) ==
  /\ level0' = [level0 EXCEPT ![s] = WithMark(level0[s], TRUE)]
  /\ num_deleted_' = num_deleted_ + 1
  /\ deleted_elements' = deleted_elements \union {s}

UnmarkInternalKeepsListed(s, entry) ==
  /\ level0' = [level0 EXCEPT ![s] = entry]
  /\ num_deleted_' = num_deleted_ - 1
  /\ UNCHANGED deleted_elements

MarkDeletedInternal(s) ==
  /\ level0' = [level0 EXCEPT ![s] = WithMark(level0[s], TRUE)]
  /\ num_deleted_' = num_deleted_ + 1
  /\ deleted_elements' = IF allow_replace_deleted_
                           THEN deleted_elements \union {s} ELSE deleted_elements

(* Clears the mark of s, which then holds the entry its caller wrote.      *)
UnmarkDeletedInternal(s, entry) ==
  /\ level0' = [level0 EXCEPT ![s] = entry]
  /\ num_deleted_' = num_deleted_ - 1
  /\ deleted_elements' = IF allow_replace_deleted_
                           THEN deleted_elements \ {s} ELSE deleted_elements

-----------------------------------------------------------------------------
(* addPoint                                                                *)

(* Bug: the mark of an updated point stays. *)
UpdateExistingKeepsMark(l, v) ==
  LET s == label_lookup_[l] IN
  /\ level0' = [level0 EXCEPT ![s] =
                  [label |-> @.label, data |-> v, deleted |-> @.deleted]]
  /\ UNCHANGED <<num_deleted_, deleted_elements, label_lookup_>>

(* addPoint(data, label, -1) on a label with a slot: the point is updated  *)
(* in place and comes back if it was deleted.                              *)
UpdateExisting(l, v) ==
  LET s == label_lookup_[l] IN
  /\ IF level0[s].deleted
       THEN UnmarkDeletedInternal(s, LiveEntry(level0[s].label, v))
       ELSE /\ level0' = [level0 EXCEPT ![s] = LiveEntry(level0[s].label, v)]
            /\ UNCHANGED <<num_deleted_, deleted_elements>>
  /\ UNCHANGED label_lookup_

(* addPoint(data, label, -1) on a new label: the next slot is taken.       *)
Append1(l, v) ==
  /\ level0' = Append(level0, LiveEntry(l, v))
  /\ label_lookup_' = [label_lookup_ EXCEPT ![l] = Len(level0) + 1]
  /\ UNCHANGED <<num_deleted_, deleted_elements>>

(* Bug: the lookup table is not asked. *)
AddOrUpdateAlwaysAppends(l, v) ==
  IF Len(level0) >= max_elements_
    THEN Throw("add", l)
    ELSE /\ Append1(l, v)
         /\ Returns("add", l, TRUE)
         /\ UNCHANGED <<max_elements_, allow_replace_deleted_, file, careful>>

(* addPoint(data, label, -1): refused for a deleted label when replacement *)
(* is enabled, and for a new label when the base layer is full.            *)
AddOrUpdate(l, v) ==
  IF \/ /\ label_lookup_[l] # 0
        /\ allow_replace_deleted_
        /\ level0[label_lookup_[l]].deleted
     \/ /\ label_lookup_[l] = 0
        /\ Len(level0) >= max_elements_
    THEN Throw("add", l)
    ELSE /\ IF label_lookup_[l] # 0 THEN UpdateExisting(l, v) ELSE Append1(l, v)
         /\ Returns("add", l, TRUE)
         /\ UNCHANGED <<max_elements_, allow_replace_deleted_, file, careful>>

(* Bug: the replaced label stays in the table. *)
ReplaceDeletedKeepsOldLabel(l, v) ==
  \E s \in deleted_elements :
    /\ label_lookup_' = [label_lookup_ EXCEPT ![l] = s]
    /\ UnmarkDeletedInternal(s, LiveEntry(l, v))
    /\ Returns("add", l, TRUE)
    /\ UNCHANGED <<max_elements_, allow_replace_deleted_, file, careful>>

(* The first element of an unordered_set, hence any deleted slot, goes to  *)
(* the label: relabelled, looked up, unmarked, rewritten.  Whether the     *)
(* label already has a slot is not asked.                                  *)
ReplaceDeleted(l, v) ==
  \E s \in deleted_elements :
    /\ label_lookup_' = [label_lookup_ EXCEPT ![level0[s].label] = 0, ![l] = s]
    /\ UnmarkDeletedInternal(s, LiveEntry(l, v))
    /\ Returns("add", l, TRUE)
    /\ UNCHANGED <<max_elements_, allow_replace_deleted_, file, careful>>

AddPoint(l, v, replace) ==
  IF replace /\ ~allow_replace_deleted_
    THEN Throw("add", l)
    ELSE IF replace /\ deleted_elements # {}
           THEN ReplaceDeleted(l, v)
           ELSE AddOrUpdate(l, v)

-----------------------------------------------------------------------------
(* markDelete, unmarkDelete                                                *)

MarkDelete(l) ==
  LET s == label_lookup_[l] IN
  IF s = 0 \/ (s # 0 /\ level0[s].deleted)
    THEN Throw("mark", l)
    ELSE /\ MarkDeletedInternal(s)
         /\ Returns("mark", l, TRUE)
         /\ UNCHANGED <<label_lookup_, max_elements_, allow_replace_deleted_, file, careful>>

UnmarkDelete(l) ==
  LET s == label_lookup_[l] IN
  IF s = 0 \/ (s # 0 /\ ~level0[s].deleted)
    THEN Throw("unmark", l)
    ELSE /\ UnmarkDeletedInternal(s, WithMark(level0[s], FALSE))
         /\ Returns("unmark", l, TRUE)
         /\ UNCHANGED <<label_lookup_, max_elements_, allow_replace_deleted_, file, careful>>

-----------------------------------------------------------------------------
(* resizeIndex, saveIndex, loadIndex                                       *)

ResizeIndex(n) ==
  IF n < Len(level0)
    THEN Throw("resize", n)
    ELSE /\ max_elements_' = n
         /\ Returns("resize", n, TRUE)
         /\ UNCHANGED <<table, allow_replace_deleted_, file, careful>>

SaveIndex ==
  /\ file' = [saved |-> TRUE, level0 |-> level0, max_elements_ |-> max_elements_]
  /\ Returns("save", 0, TRUE)
  /\ UNCHANGED <<table, max_elements_, allow_replace_deleted_, careful>>

(* The table loadIndex fills slot by slot, a later slot overwriting an     *)
(* earlier one of the same label.                                          *)
Rebuilt(layer) ==
  [l \in Label |->
     LET holders == {s \in Slots(layer) : layer[s].label = l} IN
     IF holders = {} THEN 0 ELSE Max(holders)]

LoadIndexForgetsMarks(n, allow) ==
  /\ file.saved
  /\ level0' = file.level0
  /\ max_elements_' = IF n < Len(file.level0) THEN file.max_elements_ ELSE n
  /\ label_lookup_' = Rebuilt(file.level0)
  /\ num_deleted_' = num_deleted_ + Cardinality(Marked(file.level0))
  /\ deleted_elements' = IF allow THEN Marked(file.level0) ELSE {}
  /\ allow_replace_deleted_' = allow
  /\ Returns("load", n, TRUE)
  /\ UNCHANGED <<file, careful>>

(* A new index is built from the file; marks come with the slots, the      *)
(* count and the free list are recomputed, and a capacity too small for    *)
(* the file is replaced by the saved one.                                  *)
LoadIndex(n, allow) ==
  /\ file.saved
  /\ level0' = file.level0
  /\ max_elements_' = IF n < Len(file.level0) THEN file.max_elements_ ELSE n
  /\ label_lookup_' = Rebuilt(file.level0)
  /\ num_deleted_' = Cardinality(Marked(file.level0))
  /\ deleted_elements' = IF allow THEN Marked(file.level0) ELSE {}
  /\ allow_replace_deleted_' = allow
  /\ Returns("load", n, TRUE)
  /\ UNCHANGED <<file, careful>>

-----------------------------------------------------------------------------

(* The two workloads: any call, or replaceDeleted with new labels only.    *)
CallersPass(l, replace) == replace /\ careful => label_lookup_[l] = 0

Next ==
  \/ \E l \in Label, v \in Vector, replace \in BOOLEAN :
       CallersPass(l, replace) /\ AddPoint(l, v, replace)
  \/ \E l \in Label : MarkDelete(l)
  \/ \E l \in Label : UnmarkDelete(l)
  \/ \E n \in Capacities : ResizeIndex(n)
  \/ SaveIndex
  \/ \E n \in Capacities, allow \in BOOLEAN : LoadIndex(n, allow)

Spec == Init /\ [][Next]_vars

-----------------------------------------------------------------------------

(* Every slot number kept anywhere is a slot of the base layer, and the    *)
(* layer fits its allocation (cur_element_count <= max_elements_).         *)
TypeOK ==
  /\ level0 \in Seq(SlotEntry)
  /\ max_elements_ \in Nat \ {0}
  /\ Len(level0) <= max_elements_
  /\ label_lookup_ \in [Label -> 0..Len(level0)]
  /\ num_deleted_ \in 0..Len(level0)
  /\ deleted_elements \subseteq Slots(level0)
  /\ allow_replace_deleted_ \in BOOLEAN
  /\ file.saved => /\ file.level0 \in Seq(SlotEntry)
                   /\ file.max_elements_ \in Nat \ {0}
                   /\ Len(file.level0) <= file.max_elements_

(* A label the table knows leads to a slot that carries that label, with   *)
(* replacement, relabelling and reload: MarkDeleted and GetDataByLabel act *)
(* on the point the caller named.                                          *)
LookupSound ==
  \A l \in Label : label_lookup_[l] # 0 => level0[label_lookup_[l]].label = l

(* num_deleted_, kept by increments, is the number of marked slots:        *)
(* searchKnn ignores delete marks altogether when it is 0, so an undercount*)
(* would return deleted points.                                            *)
DeletedAccounting == num_deleted_ = Cardinality(Marked(level0))

(* The free list is exactly the marked slots when replacement is enabled   *)
(* and empty when it is not: a live slot is never handed to a new label    *)
(* and a deleted slot is never lost.                                       *)
FreeListExact ==
  deleted_elements = IF allow_replace_deleted_ THEN Marked(level0) ELSE {}

EverySlotFound == \A s \in Slots(level0) : label_lookup_[level0[s].label] = s

(* With careful callers every slot is the slot its label leads to, so no   *)
(* two slots share a label and no point is out of reach of MarkDeleted and *)
(* GetDataByLabel.  This is what loadIndex needs to rebuild the same table *)
(* from the slots.                                                         *)
LookupComplete == careful => EverySlotFound

(* A live slot's label is in the table: a point that searches return can   *)
(* be read and deleted by its label.                                       *)
LiveLabelFound ==
  \A s \in Slots(level0) : ~level0[s].deleted => label_lookup_[level0[s].label] # 0

(* A live slot changes only in a call that names its label, and nothing    *)
(* but loading takes a slot away: replacement never evicts a live point.   *)
LiveSlotsKept ==
  [][reply'.op # "load" =>
       \A s \in Slots(level0) :
         /\ s \in Slots(level0')
         /\ level0'[s] # level0[s] =>
              \/ reply'.arg = level0[s].label
              \/ reply'.op = "add" /\ level0[s].deleted]_vars

(* For careful callers the table behaves as LabelIndex, label by label:    *)
(* updates, deletions, replacements and a save and load keep every label's *)
(* vector and mark.                                                        *)
Visible(lookup, layer) ==
  [l \in Label |->
     IF lookup[l] = 0
       THEN [present |-> FALSE]
       ELSE [present |-> TRUE, data |-> layer[lookup[l]].data,
             deleted |-> layer[lookup[l]].deleted]]

Promise == INSTANCE LabelIndex WITH
  store    <- Visible(label_lookup_, level0),
  capacity <- max_elements_,
  allow    <- allow_replace_deleted_,
  snapshot <- IF file.saved
                THEN [saved |-> TRUE,
                      store |-> Visible(Rebuilt(file.level0), file.level0),
                      capacity |-> file.max_elements_]
                ELSE NoFile

ImplementsLabelIndex == Promise!Init /\ [][careful => Promise!Next]_(Promise!vars)

=============================================================================
