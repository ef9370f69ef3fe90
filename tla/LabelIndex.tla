----------------------------- MODULE LabelIndex -----------------------------
(***************************************************************************)
(* What an index promises its caller, label by label.                      *)
(*                                                                         *)
(* A label is absent, or it has a vector and is live or marked deleted.    *)
(* The comments of hnsw.go on AddPoints, MarkDeleted, UnmarkDeleted,       *)
(* ResizeIndex, Save and Load are stated here over that view alone: no     *)
(* slot, no lookup table, no free list.  LabelTable implements it for      *)
(* callers that pass replaceDeleted with new labels only.                  *)
(***************************************************************************)
EXTENDS Integers, FiniteSets

CONSTANTS
  Label,       \* the external labels callers use
  Vector,      \* the vectors as stored (normalised already in Cosine space)
  Capacities   \* the capacities passed to New, ResizeIndex and Load

VARIABLES
  store,       \* label -> Absent or its entry
  capacity,    \* how many labels fit
  allow,       \* the allowReplaceDeleted argument of New or Load
  snapshot,    \* what the saved file holds: a store and a capacity, or none
  reply        \* the last call and whether it returned nil

vars == <<store, capacity, allow, snapshot, reply>>

Absent == [present |-> FALSE]

Live(v) == [present |-> TRUE, data |-> v, deleted |-> FALSE]

IsPresent(l) == store[l] # Absent
IsDeleted(l) == IsPresent(l) /\ store[l].deleted

Size(s) == Cardinality({l \in Label : s[l] # Absent})

Returns(op, arg, ok) == reply' = [op |-> op, arg |-> arg, ok |-> ok]

Init ==
  /\ store = [l \in Label |-> Absent]
  /\ capacity \in Capacities
  /\ allow \in BOOLEAN
  /\ snapshot = [saved |-> FALSE]
  /\ reply = [op |-> "new", arg |-> capacity, ok |-> TRUE]

-----------------------------------------------------------------------------

(* A refused call changes nothing. *)
Refuse(op, arg) ==
  /\ Returns(op, arg, FALSE)
  /\ UNCHANGED <<store, capacity, allow, snapshot>>

SetEntry(op, l, entry) ==
  /\ store' = [store EXCEPT ![l] = entry]
  /\ Returns(op, l, TRUE)
  /\ UNCHANGED <<capacity, allow, snapshot>>

(* Without replacement: update the point if it is in the index, else add   *)
(* it; a deleted label comes back, unless replacement is enabled.          *)
AddOrUpdate(l, v) ==
  IF IsPresent(l)
    THEN IF allow /\ IsDeleted(l)
           THEN Refuse("add", l)
           ELSE SetEntry("add", l, Live(v))
    ELSE IF Size(store) >= capacity
           THEN Refuse("add", l)
           ELSE SetEntry("add", l, Live(v))

(* With replacement: a new label takes the place of some deleted label.    *)
Replace(l, v) ==
  \E d \in Label :
    /\ IsDeleted(d)
    /\ store' = [store EXCEPT ![d] = Absent, ![l] = Live(v)]
    /\ Returns("add", l, TRUE)
    /\ UNCHANGED <<capacity, allow, snapshot>>

Add(l, v, replace) ==
  IF replace /\ ~allow
    THEN Refuse("add", l)
    ELSE IF replace /\ ~IsPresent(l) /\ \E d \in Label : IsDeleted(d)
           THEN Replace(l, v)
           ELSE AddOrUpdate(l, v)

MarkDeleted(l) ==
  IF IsPresent(l) /\ ~IsDeleted(l)
    THEN SetEntry("mark", l, [store[l] EXCEPT !.deleted = TRUE])
    ELSE Refuse("mark", l)

UnmarkDeleted(l) ==
  IF IsDeleted(l)
    THEN SetEntry("unmark", l, [store[l] EXCEPT !.deleted = FALSE])
    ELSE Refuse("unmark", l)

Resize(n) ==
  IF n < Size(store)
    THEN Refuse("resize", n)
    ELSE /\ capacity' = n
         /\ Returns("resize", n, TRUE)
         /\ UNCHANGED <<store, allow, snapshot>>

Save ==
  /\ snapshot' = [saved |-> TRUE, store |-> store, capacity |-> capacity]
  /\ Returns("save", 0, TRUE)
  /\ UNCHANGED <<store, capacity, allow>>

(* A loaded index answers for every label as the saved one did.            *)
Load(n, replaceable) ==
  /\ snapshot.saved
  /\ store' = snapshot.store
  /\ capacity' = IF n < Size(snapshot.store) THEN snapshot.capacity ELSE n
  /\ allow' = replaceable
  /\ Returns("load", n, TRUE)
  /\ UNCHANGED snapshot

Next ==
  \/ \E l \in Label, v \in Vector, replace \in BOOLEAN : Add(l, v, replace)
  \/ \E l \in Label : MarkDeleted(l) \/ UnmarkDeleted(l)
  \/ \E n \in Capacities : Resize(n)
  \/ Save
  \/ \E n \in Capacities, replaceable \in BOOLEAN : Load(n, replaceable)

Spec == Init /\ [][Next]_vars

=============================================================================
