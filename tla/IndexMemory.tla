---------------------------- MODULE IndexMemory ----------------------------
(***************************************************************************)
(* The C heap behind a handle: which blocks newIndex, loadIndex, addPoint, *)
(* resizeIndex, searchKnn and freeHNSW allocate and free, in which order,  *)
(* and what they leave behind when an allocation fails on the way.         *)
(*                                                                         *)
(* Blocks are counted by kind.  `room' is, for each of the arrays indexed  *)
(* by element, the number of elements it was made for.  The handle's lock  *)
(* is taken shared by Search and Save and exclusively by the others; a     *)
(* call that returned from C still owes Go what it `holds': a result or an *)
(* error string, freed before the method returns.  After an access outside *)
(* of live memory the program has no meaning, and the model stops.         *)
(***************************************************************************)
EXTENDS Integers, Sequences, FiniteSets

CONSTANTS
  Goroutine,     \* goroutines that use the handle
  Sizes,         \* values of maxElements and newSize
  MaxFailures,   \* bound: failed constructors
  Failing        \* where an allocation may fail

MemoryAssumption ==
  /\ IsFiniteSet(Goroutine)
  /\ Sizes \subseteq Nat
  /\ MaxFailures \in Nat
  /\ Failing \subseteq {"constructor", "list", "grow", "shrink", "result", "error"}

VARIABLES
  heap,      \* kind of block -> live blocks
  open,      \* has the handle an index?
  room,      \* array -> elements it has room for; max: max_elements_
  dangling,  \* has data_level0_memory_ been freed?
  lists,     \* element -> what its linkLists_ entry is
  holds,     \* goroutine -> the blocks its running call owes, or Idle
  failed,    \* constructors that threw
  lost,      \* kind of block -> blocks they had made and nobody frees (history)
  slips,     \* failures of this index's calls that left it unsound (history)
  wrong      \* the accesses outside of live memory so far

vars == <<heap, open, room, dangling, lists, holds, failed, lost, slips, wrong>>

Idle    == {"idle"}
Fixed   == {"wrapper", "space", "object", "base", "pool", "links"}
Result  == {"result", "labels", "dists"}
Kinds   == Fixed \union Result \union {"list", "error"}
Parts   == <<"pool", "levels", "locks", "base", "links", "max">>   \* resizeIndex's order
Array   == {Parts[i] : i \in 1 .. 5}
Entries == {"none", "list", "null"}    \* level 0; a list; a failed malloc

More(h, K) == [k \in Kinds |-> h[k] + IF k \in K THEN 1 ELSE 0]
Less(h, K) == [k \in Kinds |-> h[k] - IF k \in K THEN 1 ELSE 0]
ListsOf(e) == Cardinality({i \in DOMAIN e : e[i] = "list"})

Running == wrong = {}
Alone   == \A g \in Goroutine : holds[g] = Idle     \* the lock, taken exclusively

(* copyErrorString: its own malloc may fail.                               *)
Errors == {{"error"}} \union IF "error" \in Failing THEN {{}} ELSE {}
Report(g, h, msg) == heap' = More(h, msg) /\ holds' = [holds EXCEPT ![g] = msg]

-----------------------------------------------------------------------------
Init ==
  /\ heap = [k \in Kinds |-> 0]
  /\ open = FALSE /\ dangling = FALSE
  /\ room = [p \in Array \union {"max"} |-> 0]
  /\ lists = <<>>
  /\ holds = [g \in Goroutine |-> Idle]
  /\ failed = 0 /\ lost = [k \in Kinds |-> 0] /\ slips = {} /\ wrong = {}

(* newIndex with no elements, or loadIndex with the elements of a file.    *)
Construct(g, n) ==
  /\ Running /\ Alone /\ ~open
  /\ \E e \in UNION {[1 .. m -> {"none", "list"}] : m \in 0 .. n} :
       /\ open' = TRUE /\ dangling' = FALSE /\ slips' = {}
       /\ room' = [p \in DOMAIN room |-> n]
       /\ lists' = e
       /\ heap' = [More(heap, Fixed) EXCEPT !["list"] = @ + ListsOf(e)]
  /\ UNCHANGED <<holds, failed, lost, wrong>>

(* How far a constructor came with what only clear() frees: the base       *)
(* layer, then linkLists_, then, of a load, one list after the other.      *)
Stages == {{}, {"base"}, {"base", "links"}}
WithLists(h, made) == [h EXCEPT !["list"] = @ + made]

(* The constructor throws.  The object, its members and the pool are       *)
(* destroyed with it, the catch deletes space and wrapper; but ~Hierar-    *)
(* chicalNSW does not run, so what clear() would free stays, and of a load *)
(* every list made so far.                                                 *)
ConstructFails(g, n) ==
  /\ Running /\ Alone /\ ~open
  /\ "constructor" \in Failing /\ failed < MaxFailures
  /\ \E left \in Stages, made \in 0 .. n, msg \in Errors :
       /\ made > 0 => "links" \in left
       /\ lost' = WithLists(More(lost, left), made)
       /\ heap' = WithLists(More(heap, left \union msg), made)
       /\ holds' = [holds EXCEPT ![g] = msg]
  /\ failed' = failed + 1
  /\ UNCHANGED <<open, room, dangling, lists, slips, wrong>>

(* addPoint of a new element: it is counted before its list is allocated.  *)
AddAt(g, max) ==
  /\ Running /\ Alone /\ open
  /\ Len(lists) < max
  /\ \E entry \in {"none", "list"} \union IF "list" \in Failing THEN {"null"} ELSE {} :
       /\ lists' = Append(lists, entry)
       /\ \/ entry = "none" /\ UNCHANGED <<heap, holds>>
          \/ entry = "list" /\ heap' = More(heap, {"list"}) /\ UNCHANGED holds
          \/ entry = "null" /\ \E msg \in Errors : Report(g, heap, msg)
       /\ slips' = slips \union IF entry = "null" THEN {"list"} ELSE {}
  /\ wrong' = {a \in Array : Len(lists) >= room[a]} \union IF dangling THEN {"base"} ELSE {}
  /\ UNCHANGED <<open, room, dangling, failed, lost>>

(* Bug: the comparison with max_elements_ is off by one.                   *)
AddPastMax(g) == AddAt(g, room["max"] + 1)
Add(g) == AddAt(g, room["max"])

(* addPoint of a label that is there: updatePoint walks all its levels.    *)
Update(g) ==
  /\ Running /\ Alone /\ open
  /\ \E i \in DOMAIN lists : wrong' = IF lists[i] = "null" THEN {"list"} ELSE {}
  /\ UNCHANGED <<heap, open, room, dangling, lists, holds, failed, lost, slips>>

-----------------------------------------------------------------------------
(* resizeIndex                                                             *)

Place(p) == CHOOSE i \in DOMAIN Parts : Parts[i] = p

(* Can making part p of size n fail?  A vector that shrinks and a block    *)
(* that realloc shrinks stay where they are; the pool and the locks are    *)
(* made anew.  realloc to size 0 frees the block and returns null.         *)
MayFail(p, n) ==
  \/ p = "base" /\ n = 0
  \/ "grow" \in Failing /\ p \in Array /\ n > room[p]
  \/ "shrink" \in Failing /\ p \in {"pool", "locks"} /\ n <= room[p]

ResizeIndex(g, n) ==
  /\ Running /\ Alone /\ open
  /\ n >= Len(lists)
  /\ n > 0
  /\ room' = [p \in DOMAIN room |-> n]
  /\ wrong' = IF dangling THEN {"base"} ELSE {}
  /\ UNCHANGED <<heap, open, dangling, lists, holds, failed, lost, slips>>

(* It throws at part p: the parts before it have their new size.           *)
ResizeFails(g, n) ==
  /\ Running /\ Alone /\ open
  /\ n >= Len(lists)
  /\ \E p \in Array, msg \in Errors :
       /\ MayFail(p, n)
       /\ room' = [q \in DOMAIN room |-> IF Place(q) < Place(p) THEN n ELSE room[q]]
       /\ dangling' = (dangling \/ (p = "base" /\ n = 0))
       /\ slips' = slips \union
            IF p = "base" /\ n = 0 THEN {"zero"} ELSE IF n <= room[p] THEN {"shrink"} ELSE {}
       /\ heap' = IF dangling' /\ ~dangling THEN Less(More(heap, msg), {"base"}) ELSE More(heap, msg)
       /\ wrong' = IF dangling /\ Place(p) >= Place("base") THEN {"base"} ELSE {}
       /\ holds' = [holds EXCEPT ![g] = msg]
  /\ UNCHANGED <<open, lists, failed, lost>>

-----------------------------------------------------------------------------
(* Readers, the end of a call, and Free                                    *)

(* saveIndex copies every list the element's level calls for.              *)
Save(g) ==
  /\ Running /\ open /\ holds[g] = Idle
  /\ wrong' = (IF \E i \in DOMAIN lists : lists[i] = "null" THEN {"list"} ELSE {})
              \union IF dangling /\ lists # <<>> THEN {"base"} ELSE {}
  /\ UNCHANGED <<heap, open, room, dangling, lists, holds, failed, lost, slips>>

(* searchKnn returns its result.  An index all of whose elements came from *)
(* calls that failed has no entry point: enterpoint_node_ is still -1.     *)
Search(g) ==
  /\ Running /\ open /\ holds[g] = Idle
  /\ heap' = More(heap, Result)
  /\ holds' = [holds EXCEPT ![g] = Result]
  /\ wrong' = IF lists # <<>> /\ \A i \in DOMAIN lists : lists[i] = "null" THEN {"base"} ELSE {}
  /\ UNCHANGED <<open, room, dangling, lists, failed, lost, slips>>

(* Bug: the catch frees the result and not its arrays.                     *)
SearchFailsKeepsArrays(g) ==
  /\ Running /\ open /\ holds[g] = Idle
  /\ "result" \in Failing
  /\ \E got \in {{}, {"result"}, {"result", "labels"}, Result}, msg \in Errors :
       /\ heap' = More(Less(More(heap, got), {"result"} \intersect got), msg)
       /\ holds' = [holds EXCEPT ![g] = msg]
  /\ UNCHANGED <<open, room, dangling, lists, failed, lost, slips, wrong>>

(* An allocation or a row throws: the catch frees the parts there are, all *)
(* of them null until they are allocated.                                  *)
SearchFails(g) ==
  /\ Running /\ open /\ holds[g] = Idle
  /\ "result" \in Failing
  /\ \E got \in {{}, {"result"}, {"result", "labels"}, Result}, msg \in Errors :
       /\ heap' = More(Less(More(heap, got), got), msg)
       /\ holds' = [holds EXCEPT ![g] = msg]
  /\ UNCHANGED <<open, room, dangling, lists, failed, lost, slips, wrong>>

(* A call that is refused before it changes anything: the index is full,   *)
(* the new size is below the count, a label is not there.                  *)
Refused(g) ==
  /\ Running /\ Alone /\ open
  /\ \E msg \in Errors :
       /\ heap' = More(heap, msg)
       /\ holds' = [holds EXCEPT ![g] = msg]
  /\ UNCHANGED <<open, room, dangling, lists, failed, lost, slips, wrong>>

(* Go copies the result and frees it, or turns the error string into an    *)
(* error and frees it.                                                     *)
Return(g) ==
  /\ Running /\ holds[g] # Idle
  /\ heap' = Less(heap, holds[g])
  /\ holds' = [holds EXCEPT ![g] = Idle]
  /\ UNCHANGED <<open, room, dangling, lists, failed, lost, slips, wrong>>

(* Free, or the finalizer: clear() frees the lists of the elements with a  *)
(* level, where a null one is nothing to free.                             *)
Free(g) ==
  /\ Running /\ Alone /\ open
  /\ open' = FALSE
  /\ heap' = [Less(heap, IF dangling THEN Fixed \ {"base"} ELSE Fixed)
                EXCEPT !["list"] = @ - ListsOf(lists)]
  /\ wrong' = IF dangling THEN {"base"} ELSE {}
  /\ lists' = <<>> /\ dangling' = FALSE
  /\ room' = [p \in DOMAIN room |-> 0]
  /\ UNCHANGED <<holds, failed, lost, slips>>

Next ==
  \E g \in Goroutine :
    \/ \E n \in Sizes :
         Construct(g, n) \/ ConstructFails(g, n) \/ ResizeIndex(g, n) \/ ResizeFails(g, n)
    \/ Add(g) \/ Update(g) \/ Save(g) \/ Search(g) \/ SearchFails(g) \/ Refused(g)
    \/ Return(g) \/ Free(g)
    \/ ~Running /\ UNCHANGED vars

Spec == Init /\ [][Next]_vars

-----------------------------------------------------------------------------
(* Properties.                                                             *)

(* Types; no block is freed more often than it was allocated.              *)
TypeOK ==
  /\ heap \in [Kinds -> Nat]
  /\ open \in BOOLEAN /\ dangling \in BOOLEAN
  /\ room \in [Array \union {"max"} -> Sizes \union {0}]
  /\ \A i \in DOMAIN lists : lists[i] \in Entries
  /\ \A g \in Goroutine : holds[g] \in {Idle, Result, {"error"}, {}}
  /\ failed \in 0 .. MaxFailures /\ lost \in [Kinds -> Nat]

Owned(k) ==
  (IF ~open THEN 0
   ELSE IF k = "list" THEN ListsOf(lists)
   ELSE IF k \in Fixed /\ ~(k = "base" /\ dangling) THEN 1 ELSE 0)
  + Cardinality({g \in Goroutine : k \in holds[g]})

(* Every block has an owner, whichever allocation failed on the way: the   *)
(* index, or a call that is about to free it.  What is lost beyond that    *)
(* was made by constructors that threw: a base layer and a linkLists_      *)
(* each, and of a load as many lists as there is room for elements.        *)
NothingLeaks ==
  /\ \A k \in Kinds : heap[k] = Owned(k) + lost[k]
  /\ \A k \in Kinds \ {"base", "links", "list"} : lost[k] = 0
  /\ lost["links"] <= lost["base"] /\ lost["base"] <= failed
  /\ \A n \in Sizes : (\A m \in Sizes : m <= n) => lost["list"] <= lost["links"] * n

(* As long as no list allocation, shrinking resize or resize to 0 has      *)
(* failed on the index, no call reads, writes or frees memory that is not  *)
(* there, and every element that max_elements_ allows has a place in every *)
(* array, also after a growing resize that ended half way.                 *)
NoMemoryErrors ==
  slips = {} => wrong = {} /\ \A a \in Array : room[a] >= room["max"]

(* "Release resources (idempotent, safe to call multiple times)": when     *)
(* memory never runs out, no call touches or frees what is not there.      *)
SafeWithoutFailures == slips \subseteq {"zero"} => wrong = {}

=============================================================================
