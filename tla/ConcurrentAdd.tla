---------------------------- MODULE ConcurrentAdd ----------------------------
(***************************************************************************)
(* The worker threads of one AddPoints batch inside addPoint of            *)
(* hnswlib/hnswalg.h, at the grain of its locks: the label's operation     *)
(* lock, deleted_elements_lock and label_lookup_lock.  The writes that the *)
(* code does outside any lock are steps of their own.                      *)
(*                                                                         *)
(* Batches follow one another, with MarkDeleted and UnmarkDeleted calls in *)
(* between, so that a batch starts from any table the index can have.  How *)
(* many rows a batch has is left open (ParallelFor hands them out).  The   *)
(* graph work of a row (link) leaves the table alone.                      *)
(***************************************************************************)
EXTENDS Integers, Sequences, FiniteSets

CONSTANTS
  Thread,                     \* the worker threads
  Label,                      \* the external labels callers use
  Vector,                     \* the vectors as stored
  Capacities,                 \* the capacities of the index
  MAX_LABEL_OPERATION_LOCKS   \* size of label_op_locks_: 65536 in the code

ASSUME BatchAssumption ==
  /\ Label \subseteq Nat /\ IsFiniteSet(Label)
  /\ Capacities \subseteq Nat \ {0}
  /\ MAX_LABEL_OPERATION_LOCKS \in Nat \ {0}

VARIABLES
  level0, max_elements_, label_lookup_, num_deleted_, deleted_elements,
  allow_replace_deleted_, file, reply,   \* the table, as in LabelTable
  careful,    \* is replaceDeleted passed only with labels that are new and
              \* differ within the batch?
  batch,      \* "none", or the kind of the batch in progress: "plain", "replace"
  exhausted,  \* are there no more rows to hand out?
  requested,  \* labels that are no longer new to the callers of this batch
  pc,         \* thread -> where it is in addPoint
  label,      \* thread -> the label of its row
  vector,     \* thread -> the vector of its row
  slot,       \* thread -> the slot it works on: internal_id_replaced,
              \* existingInternalId or cur_c; 0 for none
  old,        \* thread -> label_replaced while it replaces a slot, or NoLabel
  landed      \* label -> what the finished rows and calls left (history)

Table == INSTANCE LabelTable

config  == <<max_elements_, allow_replace_deleted_, file, reply, careful>>
tables  == <<level0, label_lookup_, num_deleted_, deleted_elements>>
batches == <<batch, exhausted, requested>>
rows    == <<pc, label, vector, slot, old>>
vars    == <<tables, config, batches, rows, landed>>

NoLabel == -1

(* What an appended slot holds before its label and vector are written.    *)
Blank == [label |-> NoLabel, data |-> NoLabel, deleted |-> FALSE]

Init ==
  /\ Table!Init
  /\ batch = "none"
  /\ exhausted = TRUE
  /\ requested = {}
  /\ pc = [t \in Thread |-> "exited"]
  /\ label = [t \in Thread |-> NoLabel]
  /\ vector = [t \in Thread |-> NoLabel]
  /\ slot = [t \in Thread |-> 0]
  /\ old = [t \in Thread |-> NoLabel]
  /\ landed = [l \in Label |-> [present |-> FALSE]]

Goto(t, place) == pc' = [pc EXCEPT ![t] = place]

(* mutex(label): labels that agree modulo the number of locks share one.   *)
LabelOpMutex(l) == l % MAX_LABEL_OPERATION_LOCKS

InAddPoint(t) == pc[t] \notin {"exited", "fetch", "refused", "lock"}

(* The thread's label operation lock is released and its next row fetched. *)
Leave(t, place) ==
  /\ Goto(t, place)
  /\ slot' = [slot EXCEPT ![t] = 0]
  /\ old' = [old EXCEPT ![t] = NoLabel]
  /\ label' = [label EXCEPT ![t] = NoLabel]
  /\ vector' = [vector EXCEPT ![t] = NoLabel]

-----------------------------------------------------------------------------
(* The calls between batches.                                              *)

Mark(l) ==
  /\ batch = "none"
  /\ label_lookup_[l] # 0
  /\ ~level0[label_lookup_[l]].deleted
  /\ Table!MarkDeletedInternal(label_lookup_[l])
  /\ landed' = [landed EXCEPT ![l] = Table!Visible(label_lookup_, level0')[l]]
  /\ UNCHANGED <<label_lookup_, config, batches, rows>>

Unmark(l) ==
  LET s == label_lookup_[l] IN
  /\ batch = "none"
  /\ s # 0
  /\ level0[s].deleted
  /\ Table!UnmarkDeletedInternal(s, Table!WithMark(level0[s], FALSE))
  /\ landed' = [landed EXCEPT ![l] = Table!Visible(label_lookup_, level0')[l]]
  /\ UNCHANGED <<label_lookup_, config, batches, rows>>

StartBatch(kind) ==
  /\ batch = "none"
  /\ batch' = kind
  /\ exhausted' = FALSE
  /\ requested' = {l \in Label : label_lookup_[l] # 0}
  /\ pc' = [t \in Thread |-> "fetch"]
  /\ UNCHANGED <<tables, config, label, vector, slot, old, landed>>

EndBatch ==
  /\ batch # "none"
  /\ \A t \in Thread : pc[t] = "exited"
  /\ batch' = "none"
  /\ requested' = {}
  /\ UNCHANGED <<tables, config, exhausted, rows, landed>>

-----------------------------------------------------------------------------
(* addPoint                                                                *)

CallersPass(l) == batch = "replace" /\ careful => l \notin requested

(* ParallelFor hands out a row, or there is none left.  Replacement must be *)
(* enabled.                                                                *)
Fetch(t) ==
  /\ pc[t] = "fetch"
  /\ ~exhausted
  /\ \E l \in Label, v \in Vector :
       /\ CallersPass(l)
       /\ label' = [label EXCEPT ![t] = l]
       /\ vector' = [vector EXCEPT ![t] = v]
       /\ requested' = requested \union {l}
  /\ Goto(t, IF batch = "replace" /\ ~allow_replace_deleted_ THEN "refused" ELSE "lock")
  /\ UNCHANGED <<tables, config, batch, exhausted, slot, old, landed>>

Exit(t) ==
  /\ pc[t] = "fetch"
  /\ exhausted' = TRUE
  /\ Goto(t, "exited")
  /\ UNCHANGED <<tables, config, batch, requested, label, vector, slot, old, landed>>

(* An exception: the batch hands out no more rows (current = end). *)
Throw(t) ==
  /\ pc[t] \in {"throw", "refused"}
  /\ exhausted' = TRUE
  /\ Leave(t, "exited")
  /\ UNCHANGED <<tables, config, batch, requested, landed>>

(* Bug: no lock for the label. *)
LockLabelMissing(t) ==
  /\ pc[t] = "lock"
  /\ Goto(t, IF batch = "replace" THEN "pop" ELSE "lookup")
  /\ UNCHANGED <<tables, config, batches, label, vector, slot, old, landed>>

(* The lock for all operations with the label. *)
LockLabel(t) ==
  /\ pc[t] = "lock"
  /\ \A u \in Thread : InAddPoint(u) => LabelOpMutex(label[u]) # LabelOpMutex(label[t])
  /\ Goto(t, IF batch = "replace" THEN "pop" ELSE "lookup")
  /\ UNCHANGED <<tables, config, batches, label, vector, slot, old, landed>>

(* Bug: the vacant place is looked at and not taken. *)
PopKeepsListed(t) ==
  /\ pc[t] = "pop"
  /\ IF deleted_elements = {}
       THEN Goto(t, "lookup") /\ UNCHANGED slot
       ELSE \E s \in deleted_elements :
              /\ slot' = [slot EXCEPT ![t] = s]
              /\ Goto(t, "relabel")
  /\ UNCHANGED <<tables, config, batches, label, vector, old, landed>>

(* The check for a vacant place takes it, under deleted_elements_lock. *)
Pop(t) ==
  /\ pc[t] = "pop"
  /\ IF deleted_elements = {}
       THEN Goto(t, "lookup") /\ UNCHANGED <<deleted_elements, slot>>
       ELSE \E s \in deleted_elements :
              /\ deleted_elements' = deleted_elements \ {s}
              /\ slot' = [slot EXCEPT ![t] = s]
              /\ Goto(t, "relabel")
  /\ UNCHANGED <<level0, label_lookup_, num_deleted_, config, batches, label,
                 vector, old, landed>>

(* getExternalLabel, setExternalLabel: no lock. *)
Relabel(t) ==
  /\ pc[t] = "relabel"
  /\ old' = [old EXCEPT ![t] = level0[slot[t]].label]
  /\ level0' = [level0 EXCEPT ![slot[t]] =
                  [label |-> label[t], data |-> @.data, deleted |-> @.deleted]]
  /\ Goto(t, "table")
  /\ UNCHANGED <<label_lookup_, num_deleted_, deleted_elements, config, batches,
                 label, vector, slot, landed>>

(* Bug: the label that lost its slot stays in the table. *)
SetLookupKeepsOld(t) ==
  /\ pc[t] = "table"
  /\ label_lookup_' = [label_lookup_ EXCEPT ![label[t]] = slot[t]]
  /\ landed' = [landed EXCEPT ![old[t]] = [present |-> FALSE]]
  /\ Goto(t, "unmark")
  /\ UNCHANGED <<level0, num_deleted_, deleted_elements, config, batches, label,
                 vector, slot, old>>

(* Under label_lookup_lock: the old label goes, the new one comes. *)
SetLookup(t) ==
  /\ pc[t] = "table"
  /\ label_lookup_' = [label_lookup_ EXCEPT ![old[t]] = 0, ![label[t]] = slot[t]]
  /\ landed' = [landed EXCEPT ![old[t]] = [present |-> FALSE]]
  /\ Goto(t, "unmark")
  /\ UNCHANGED <<level0, num_deleted_, deleted_elements, config, batches, label,
                 vector, slot, old>>

(* Bug: the counter is forgotten. *)
ClearMarkKeepsCount(t) ==
  /\ pc[t] = "unmark"
  /\ level0' = [level0 EXCEPT ![slot[t]] = Table!WithMark(@, FALSE)]
  /\ Goto(t, IF allow_replace_deleted_ THEN "unlist" ELSE "write")
  /\ UNCHANGED <<label_lookup_, num_deleted_, deleted_elements, config, batches,
                 label, vector, slot, old, landed>>

(* unmarkDeletedInternal: the mark byte, which no other thread writes, ... *)
ClearMark(t) ==
  /\ pc[t] = "unmark"
  /\ IF level0[slot[t]].deleted
       THEN /\ level0' = [level0 EXCEPT ![slot[t]] = Table!WithMark(@, FALSE)]
            /\ Goto(t, "count")
       ELSE /\ Goto(t, "throw")
            /\ UNCHANGED level0
  /\ UNCHANGED <<label_lookup_, num_deleted_, deleted_elements, config, batches,
                 label, vector, slot, old, landed>>

(* ... the atomic counter ... *)
CountDown(t) ==
  /\ pc[t] = "count"
  /\ num_deleted_' = num_deleted_ - 1
  /\ Goto(t, IF allow_replace_deleted_ THEN "unlist" ELSE "write")
  /\ UNCHANGED <<level0, label_lookup_, deleted_elements, config, batches, label,
                 vector, slot, old, landed>>

(* ... and, under deleted_elements_lock, the free list. *)
Unlist(t) ==
  /\ pc[t] = "unlist"
  /\ deleted_elements' = deleted_elements \ {slot[t]}
  /\ Goto(t, "write")
  /\ UNCHANGED <<level0, label_lookup_, num_deleted_, config, batches, label,
                 vector, slot, old, landed>>

(* addPoint(data, label, -1), under label_lookup_lock: a label with a slot *)
(* is updated there, or refused when the slot is deleted and replacement   *)
(* enabled; a new label takes the next slot, if there is room.             *)
Lookup(t) ==
  LET s == label_lookup_[label[t]] IN
  /\ pc[t] = "lookup"
  /\ IF s # 0
       THEN /\ slot' = [slot EXCEPT ![t] = s]
            /\ Goto(t, IF level0[s].deleted /\ allow_replace_deleted_
                         THEN "throw" ELSE "found")
            /\ UNCHANGED <<level0, label_lookup_>>
       ELSE IF Len(level0) >= max_elements_
         THEN Goto(t, "throw") /\ UNCHANGED <<level0, label_lookup_, slot>>
         ELSE /\ level0' = Append(level0, Blank)
              /\ label_lookup_' = [label_lookup_ EXCEPT ![label[t]] = Len(level0) + 1]
              /\ slot' = [slot EXCEPT ![t] = Len(level0) + 1]
              /\ Goto(t, "init")
  /\ UNCHANGED <<num_deleted_, deleted_elements, config, batches, label, vector,
                 old, landed>>

(* The mark is read again, now outside the lock. *)
Found(t) ==
  /\ pc[t] = "found"
  /\ Goto(t, IF level0[slot[t]].deleted THEN "unmark" ELSE "write")
  /\ UNCHANGED <<tables, config, batches, label, vector, slot, old, landed>>

(* memset and memcpy of an appended slot, after label_lookup_lock is gone. *)
InitSlot(t) ==
  /\ pc[t] = "init"
  /\ level0' = [level0 EXCEPT ![slot[t]] = Table!LiveEntry(label[t], vector[t])]
  /\ Goto(t, "link")
  /\ UNCHANGED <<label_lookup_, num_deleted_, deleted_elements, config, batches,
                 label, vector, slot, old, landed>>

(* updatePoint's memcpy. *)
WriteData(t) ==
  /\ pc[t] = "write"
  /\ level0' = [level0 EXCEPT ![slot[t]] =
                  [label |-> @.label, data |-> vector[t], deleted |-> @.deleted]]
  /\ Goto(t, "link")
  /\ UNCHANGED <<label_lookup_, num_deleted_, deleted_elements, config, batches,
                 label, vector, slot, old, landed>>

(* The point is linked into the graph and the label's lock released.       *)
Link(t) ==
  /\ pc[t] = "link"
  /\ landed' = [landed EXCEPT ![label[t]] =
                  [present |-> TRUE, data |-> vector[t], deleted |-> FALSE]]
  /\ Leave(t, "fetch")
  /\ UNCHANGED <<tables, config, batches>>

(* Linking fails (no memory for the links): the row throws, its point stays*)
(* in the table.                                                           *)
LinkThrows(t) ==
  /\ pc[t] = "link"
  /\ landed' = [landed EXCEPT ![label[t]] =
                  [present |-> TRUE, data |-> vector[t], deleted |-> FALSE]]
  /\ exhausted' = TRUE
  /\ Leave(t, "exited")
  /\ UNCHANGED <<tables, config, batch, requested>>

Step(t) ==
  \/ Exit(t)
  \/ Throw(t)
  \/ LockLabel(t)
  \/ Pop(t)
  \/ Relabel(t)
  \/ SetLookup(t)
  \/ ClearMark(t)
  \/ CountDown(t)
  \/ Unlist(t)
  \/ Lookup(t)
  \/ Found(t)
  \/ InitSlot(t)
  \/ WriteData(t)
  \/ Link(t)
  \/ LinkThrows(t)

Next ==
  \/ \E l \in Label : Mark(l) \/ Unmark(l)
  \/ \E kind \in {"plain", "replace"} : StartBatch(kind)
  \/ \E t \in Thread : Fetch(t) \/ Step(t)
  \/ EndBatch

Spec == Init /\ [][Next]_vars

-----------------------------------------------------------------------------

Writing == {"relabel", "table", "unmark", "count", "unlist", "init", "write", "link"}

Entry == [label : Label, data : Vector, deleted : BOOLEAN] \union {Blank}

(* Types, and every slot number in use is one of the base layer.           *)
TypeOK ==
  /\ level0 \in Seq(Entry)
  /\ label_lookup_ \in [Label -> 0..Len(level0)]
  /\ num_deleted_ \in 0..Len(level0)
  /\ deleted_elements \subseteq 1..Len(level0)
  /\ slot \in [Thread -> 0..Len(level0)]

(* Two threads never write the same slot, whose label, mark and vector are *)
(* written outside any lock of the slot; and the base layer never outgrows *)
(* its allocation, however many threads append at once.                    *)
SlotExclusive ==
  /\ TypeOK
  /\ Len(level0) <= max_elements_
  /\ \A t \in Thread : pc[t] \in Writing => slot[t] \in 1..Len(level0)
  /\ \A t, u \in Thread :
       t # u /\ pc[t] \in Writing /\ pc[u] \in Writing => slot[t] # slot[u]

(* In the middle of a batch the free list is the marked slots but for the  *)
(* ones a thread has taken, and the count of marked slots is exact but for *)
(* the ones a thread has just cleared: a slot is never offered twice, never*)
(* lost and counted once.                                                  *)
FreeListAccounted ==
  /\ num_deleted_ = Cardinality(Table!Marked(level0) \union
                                  {slot[t] : t \in {u \in Thread : pc[u] = "count"}})
  /\ allow_replace_deleted_ =>
       deleted_elements =
         Table!Marked(level0) \
           {slot[t] : t \in {u \in Thread : pc[u] \in {"relabel", "table", "unmark"}}}

(* With careful callers every batch, failed ones too, leaves a table from  *)
(* which the next call can start: lookup and slots agree both ways.        *)
TableSoundBetweenBatches ==
  careful /\ batch = "none" => Table!LookupSound /\ Table!EverySlotFound

(* With careful callers, what finished rows and calls left for a label is  *)
(* what the table shows, unless a row is working on that label: no update  *)
(* of one thread is lost to another, a refused row changes nothing, and a  *)
(* row that fails while linking leaves its point whole.                    *)
RowsLand ==
  careful =>
    \A l \in Label :
      (\A t \in Thread : InAddPoint(t) => label[t] # l) =>
        Table!Visible(label_lookup_, level0)[l] = landed[l]

=============================================================================
