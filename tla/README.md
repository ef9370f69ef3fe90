# Formal models of hnswgo

TLA+ models, TLC configurations and TLAPS proofs for hnswgo: a Go package
(`hnsw.go`) over a C wrapper (`hnsw_wrapper.cc`) over hnswlib, a C++ header
library for approximate nearest neighbour search (`hnswlib/*.h`).

To check: `tlc -config X.cfg M` for the runs in the table below,
`tlapm M.tla` for the `*Proofs` modules.

## 1. The system

| Part | State | Operations | What is hard |
|---|---|---|---|
| **Go handle** `hnsw.go` | `mu` (RWMutex), the C pointer `index` | New, Load, SetEf, AddPoints, SearchKNN, GetDataByLabel, MarkDeleted, UnmarkDeleted, ResizeIndex, Save, the getters, Free, finalizer | goroutines against Free and the finalizer; C calls of several steps that must look like one |
| **Batches** `hnsw_wrapper.cc` | worker threads, atomic row counter, last exception, `norm_array` | resolveThreadCount, ParallelFor, addPoints, searchKnn | exceptions in threads, rows handed out once, threads ended before the frame is gone |
| **C boundary** `hnsw_wrapper.cc`, `.h` | index struct, result arrays, error strings | newIndex, loadIndex, freeHNSW, freeResult, one wrapper per method | ownership on error paths, `int` sizes |
| **Slot table** `hnswalg.h` | base layer (label, vector, delete mark per slot), `label_lookup_`, `deleted_elements`, `num_deleted_`, capacity | addPoint, markDelete, unmarkDelete, resizeIndex, saveIndex, loadIndex, getDataByLabel | replacement of deleted slots, several rows of a batch inside addPoint at once |
| **Graph** `hnswalg.h` | link lists per level, entry point, `maxlevel_`, one lock per list, `global` | link, heuristic, update and repair, greedy descent, base layer search | inserts against updates, entry point changes, empty candidate sets |
| **Visited pool** `visited_list_pool.h` | a deque of lists, a tag and marks per list | getFreeVisitedList, reset, releaseVisitedList | 16-bit tag wrap, uninitialised marks, lists lost to exceptions |
| **File** `hnswalg.h` | header, slots, link lists | saveIndex, loadIndex, indexFileSize | truncation, half-written files, mismatched parameters |
| **Spaces** `space_l2.h`, `space_ip.h` | the kernel chosen for a dimension | distance kernels by build, processor and dimension | unrolled loops and tails: a coordinate left out, added twice, or loaded from outside |
| **Stop conditions** `stop_condition.h` | a count, the documents counted, a second heap | add and remove point, stop, consider, remove extra, filter | an account kept beside the search's heap; not reachable from the Go API |
| **Brute force** `bruteforce.h` | array of slots, dictionary, count | addPoint, removePoint, searchKnn, searchKnnCloserFirst, save, load | slots that move while a point is copied in, a removal that reads what it has erased, a load that leaves the dictionary empty; not reachable from the Go API |

How they interact: a goroutine calls a Go method, which takes `mu` (shared for
reading methods, exclusive for the others), checks the pointer and calls C.
AddPoints and SearchKNN hand their rows to ParallelFor, whose threads call
addPoint or searchKnn of the index; these meet in the label locks, the lookup
table, the free list, the link lists and the visited pool. Within one batch only
addPoint (or only searchKnn) runs; between batches the exclusive lock keeps
every other writer out. That is what the modules below rely on: `HnswIndex`
shows that a write call is alone, `LabelTable` takes one call at a time from
there, `ConcurrentAdd` opens one batch into its threads, and `ParallelFor` shows
how the threads get their rows. `ConcurrentInsert` continues a row where
`ConcurrentAdd` leaves it, at the graph; `HnswGraph` looks at the same graph one
call at a time, with distances. `FlatBatch` follows the data of a batch from Go
to C and back, `IndexMemory` the memory behind a handle, `Persistence` its file.
`StopSearch`, `Bruteforce` and `DistanceKernels` are about classes of hnswlib that
stand beside the index or below it.

What makes each part correct: the handle - every call takes effect at one
instant, no use after Free, no leak, every call returns. Batches - each row once
and in order, exact outcome, no thread left. Slot table - lookups and slots
agree both ways, count and free list exact, no live point evicted, the per-label
promise kept through replacement and reload. Visited pool - marks never
mistaken, lists never shared or leaked. Graph - links only to existing slots at
existing levels, no self or duplicate links, no deadlock; searches that find what
their graph leads to. File - what is loaded is what was saved, or an error. Memory
- every block owned by someone and freed once, no access outside. Spaces - each
coordinate counts once. Stop conditions - their account is that of the result.
Brute force - the k nearest of what was put in.

`PROJECT.json` lists the hazards at their lines, with the property that covers
each or the reason why none does.

## 2. Modules

| Module | Stands for | Correspondence |
|---|---|---|
| `LabelIndex` | the promise of the Go API label by label (abstract) | a label is absent, live or deleted; one action per method |
| `LabelTable` | the slot table, one call at a time | variables carry the names of the C++ members. Slot `s` is internal id `s - 1`; `Len(level0)` is `cur_element_count`; each action is a whole C++ call with its early returns (`Throw`) |
| `LabelTableProofs` | proofs about `LabelTable` | |
| `ConcurrentAdd` | the threads of one AddPoints batch inside addPoint | one action per critical section, and one per write outside the locks; `pc` names the place. It reuses `LabelTable`'s definitions (`Table == INSTANCE LabelTable`) |
| `MCConcurrentAdd` | symmetry of threads and of vectors for TLC | |
| `ConcurrentAddProofs` | proofs about `ConcurrentAdd` | |
| `ParallelFor` | ParallelFor and the row functions | one action per atomic step of a worker; `norm_array[t]` is the row whose data thread `t`'s segment holds |
| `ParallelForProofs` | proofs about `ParallelFor` | |
| `VisitedListPool` | visited lists and their use by the searches | lists are numbered as they are created; `Visit` is the mark test and write of the search loops |
| `AtomicIndex` | the handle as goroutines should see it (abstract) | call, one instant of effect, return |
| `HnswIndex` | the handle with its RWMutex | `writer`, `readers`, `parked` are sync.RWMutex; C calls take several steps; the index is reduced to its counts |
| `HnswIndexProofs` | proofs about `HnswIndex` | |
| `ConcurrentInsert` | the graph work of rows: addPoint from its level on, mutuallyConnectNewElement, updatePoint, repairConnectionsForUpdate, between threads | one action per access to a list under its lock and per unlocked read; `pc` names the place in the code. `wild` becomes true when a list is read that does not exist |
| `MCConcurrentInsert` | symmetry of threads for TLC | |
| `ConcurrentInsertProofs` | proofs about `ConcurrentInsert` | |
| `HnswGraph` | the same calls and searchKnn, one at a time, over points of the plane | an action is a whole call; each loop is a step and its repetition (`Repeated`): `SearchLoop`, `DiverseStep` and `LinkLevel` are one turn of searchBaseLayer, of the heuristic and of the linking of levels |
| `HnswGraphProofs` | proofs about `HnswGraph` | |
| `MCHnswGraph` | points, queries and rows for TLC | |
| `Persistence` | saveIndex and loadIndex, write by write, over one file | `file.cells` are what lies on the disk, `pos` the offset of each saver's stream, `good` its state |
| `IndexMemory` | the C heap of a handle | blocks counted by kind; `room` is the length of each array that is indexed by element; `holds` is what a goroutine has to free before its method returns |
| `FlatBatch` | argument checks, flatten2DArray, row offsets, result arrays, in C ints | `flat` and `out` are the arrays; a coordinate is the pair of its vector and place |
| `DistanceKernels` | the kernels of both spaces and their choice | a kernel is the sequence of its loops: first coordinate, end, step, what one turn loads and adds |
| `StopSearch` | searchStopConditionClosest, the base layer search under a stop condition, both conditions | one action per popped candidate, neighbour, removed point and filter step |
| `Bruteforce` | BruteforceSearch | addPoint is two actions, as it copies after its lock is released; `stored` is what the calls have put in |
| `Boundary` | `DistanceKernels`, `Persistence`, `IndexMemory` and `FlatBatch` side by side | the models share nothing; a behaviour is one of the model that `part` names |
| `BoundaryProofs` | proofs about `Boundary` and its parts | |
| `Beside` | `VisitedListPool`, `StopSearch` and `Bruteforce` side by side | likewise |
| `MCBeside` | graphs and conditions of `StopSearch` for TLC | |
| `BesideProofs` | proofs about `Beside` and its parts | |

Abstractions worth knowing:

- A vector is one value. Cosine vectors count as already normalised, except in
  `ParallelFor`, which is about whose vector is normalised where.
- The free list is an `unordered_set` whose first element is taken: any element.
- `LabelTable` starts a load in place of the current index. In Go, Load makes a
  new handle; what is followed is the index that was saved and loaded last.
- `IndexMemory` lets each allocation fail and has a capacity of 0. Beside it a
  failing allocation is modelled where it leaves something behind: `LinkThrows`
  (the links of a new element, `ConcurrentAdd`), `Abandon` (the queues of a search,
  `VisitedListPool`), `SpawnFails` (a thread, `ParallelFor`). `LabelTable` has no
  capacity of 0 (`ConstantsAssumption`), since `realloc(p, 0)` destroys the base layer.
- `Blank` stands for the uninitialised slot between taking its number and
  writing it. No thread reads it: its label is locked and it has no links yet.
- In `HnswIndex`, "read" stands for all methods that take the shared lock apart
  from SearchKNN. Its `AddRow` appends, takes a mark away (a row that revives or replaces)
  or changes neither count (an update), and a batch may fail after any of its rows.
  Of the index it keeps the counts and the capacity, so that SetEf changes nothing.
- `ConcurrentInsert` leaves distances open: every comparison may go either way, so
  what it shows holds for any vectors, and for vectors read while they are written.
  Lists are bags, and their order is left out; `Size`, a list's length, counts
  its entries one by one (`Copies`).
- In `HnswGraph` the indexes are built of points no two of which are equally far from
  a third (`GeneralPosition`): how the standard library's heaps break a tie in a
  search is left out, and lists are sets. The neighbour heuristic fixes the order of
  its candidates itself (`First`: closer first, then the greater id), and
  `HeuristicExact` is about all vectors, equal ones and equal distances too. The two modules share no state: what depends on
  threads is in one, what depends on distances in the other.
- In `Persistence` a file consists of cells. Fields that the load looks at have two,
  so that a file can end inside one; the others have one. A cell is written or lies
  in a hole and reads as zero.
- In `IndexMemory` a constructor fails at any of its allocations. Members and pool go
  with the object, space and wrapper by the catch; `lost` counts what only clear()
  would free: the base layer, then `linkLists_`, then, of a load, one list after the other.
- `ConcurrentAdd` has the check and write of a mark (`ClearMark`), the count
  (`CountDown`) and the free list (`Unlist`) as steps of their own.
- `IndexMemory` ends a behaviour at the first access outside of live memory, as
  the program has no meaning from there.
- `DistanceKernels` says which coordinates are loaded and added, not the sums.
- In `StopSearch` an element stands for its internal id. Those are what the search
  returns; the conversion to labels that searchKnn makes is missing in the code. The
  descent through the upper levels is only the element where it ended.
- In `Bruteforce` a removal reads the slot from a node that it has erased: any number
  may come back, 0 standing for all that are no slot of the array.
- `Bruteforce` takes two copies into one slot as one after the other.
- Some properties hold for some uses only. The use is then a variable of the
  model, not an assumption, and all uses are explored: `careful` (`LabelTable`,
  `ConcurrentAdd`) says whether callers pass replaceDeleted only with labels that
  are new, and distinct within a batch; `slips` (`IndexMemory`) collects failed
  calls that left the index unsound; `slips` (`Bruteforce`) the uses that class
  does not stand (a removal or a save while a point is copied, removing the last slot,
  adding to or removing from a loaded index) and the removals that read
  something else from the erased node, after which the model stops; `mishaps` (`Persistence`) says whether
  saves have overlapped and whether a write has failed or the process has crashed.
- Operators whose name says what they get wrong (`SetLookupKeepsOld`,
  `FetchNotAtomic`, ...), marked `Bug:`, are no part of a specification. Each is
  a plausible mistake that the property paired with it in `PROJECT.json` detects.

## 3. Runs

| Run | Instance | States | Shows |
|---|---|---|---|
| `LabelTable` | 3 labels, 2 vectors, capacities 1 and 2 | 883,000 | lookups, count and free list agree with the slots; no live point is evicted; for careful callers every slot is found and the table implements `LabelIndex` |
| `LabelTable_LiveLabelFound` | 3 labels, capacities 2 and 3 | violated | finding 1 |
| `ConcurrentAdd` | 3 threads, labels 0..2 on 2 locks, 2 vectors, capacity 2 | 2,010,000 | slots exclusive and the free list accounted for, whoever calls; for careful callers a sound table after every batch and no lost update |
| `ParallelFor` | 9 rows, concurrency 0 to 2, unknown hardware concurrency, at most 2 throwing rows, threads that cannot be created | 60,600 | all safety properties; every batch returns unless the process ends |
| `HnswIndex` | 3 goroutines and the finalizer, capacities 1 and 2, argument 2 | 269,000 | implements `AtomicIndex`; no use after free; no leak; every call returns |
| `ConcurrentInsert` | 2 threads, 4 elements, 4 rows, 2 levels, M = 2, one update, one mark, stores in either order | 2,350,000 | lists within their memory; entry point at the top; while there are inserts only, no wild read and no duplicate link; no deadlock, no exception of the linking code |
| `ConcurrentInsert_finish` | 3 threads, 3 elements, 1 level, one update | 183,000 | every row ends |
| `ConcurrentInsert_NeverWild` | 2 threads, 2 elements, 2 levels, one update | violated | finding 2 |
| `HnswGraph` | 4 elements on 5 points, 2 queries, 2 levels, Ef = 1, one update, one mark | 132,000 | sound graph; searches agree with a definition without loops, and the heuristic does for all lists of vectors, with ties |
| `Boundary` | kernels: 24 dimensions, 4 builds, 3 processors. File: 2 savers, 2 elements, 2 levels, 2 saves, capacities 2 and 3, faults. Memory: 2 goroutines, sizes 0 to 3, at most 2 failures of any kind. Batches: up to 9 rows of dimension 2, 1 or 2 threads, topK to 3, 7-bit ints | 1,317,000 | loads inside, each coordinate once; what is loaded is what was saved, or an error; no access outside of live memory, and nothing lost but what failed constructors lose; rows, results and segments stay apart and inside |
| `MCBeside` | pool: 2 threads, 2 elements, tags 0..2, at most 1 lost list. Stop conditions: 4 elements, 3 documents, 9 conditions. Brute force: 3 labels, 2 vectors, 2 threads, 2 slots, 1 load | 2,422,000 | visited lists exclusive, marks exact, pool bounded; the account is the result's, the closest documents and the whole region are found; the nearest points are found while the class is used as it stands to be |
| `IndexMemory_SafeWithoutFailures` | 2 goroutines, sizes 0 and 2, no failing allocation | violated | finding 3 |

`CHECK_DEADLOCK FALSE` stands in `HnswGraph` only, where the bound on elements can
leave no further call. In the other runs a state without a successor would be a
deadlock of the code, above all in `ConcurrentInsert`; where a behaviour really
ends (a distance computed, a search answered, a process gone), the module has an
action that says so and changes nothing.

Why the bounds are enough for the interesting cases:

- *Three labels over two slots* give a full index, a label without a slot, a
  replaced label, and a label that is present while another is deleted; a resize
  goes from one slot to two and back. A label can hold both slots.
- *Labels 0..2 on 2 locks*: labels 0 and 2 collide on a lock, as labels
  equal modulo 65536 do, and label 1 does not, so that two threads are inside
  while the third waits.
- *Nine rows*: with two threads, batches of up to eight rows run on the calling
  thread, so both branches of ParallelFor occur. Concurrency 0 with unknown
  hardware concurrency exercises the fallback to 1. Two throwing rows make two
  threads meet in the exception handler; `MaxFailing` bounds them.
- *Three goroutines*: one can write while another waits to write and a third is
  parked as a reader, with Free and the finalizer among them. Two rows in a batch,
  and a topK of 2, lie at and above both capacities, so that batches fill the
  index or fail, and searches ask for more than there is.
- *Four elements, two levels, M = 2* (`ConcurrentInsert`): level 1 lists hold two
  links and level 0 lists four, so that level 1 lists fill up and are thinned.
  `MaxLevel` bounds the drawn level, `MaxRows` the rows, `MaxUpdates` and `MaxMarks`
  the updates and marks; one update beside an insert is what finding 2 needs.
- *Points of the plane* (`HnswGraph`): five points for four elements leave a choice
  of which are inserted, in any order. `Ef` = 1 lets a search end early, so that
  its result can differ from the best; `KnnExact` says when it must not. The
  heuristic's vectors are taken from points and queries together, repeated or not; there
  equal distances occur, and its order of ties shows.
- *The dimensions* (`DistanceKernels`) lie at, below and above each multiple of 4
  and 16 that chooses a kernel, and turn every loop zero, one and several times.
  The proofs cover all others.
- *Two elements on two levels* (`Persistence`) give files of different lengths with
  the same number of elements; capacities 2 and 3 give different headers, as a
  resize between two saves does. `MaxSaves` = 2 lets two savers overlap, or one
  save follow a torn one.
- *Sizes 0 to 3* (`IndexMemory`) grow and shrink over a count of 1 and 2 and reach
  the empty index. `Failing` names the kinds of allocation that may fail,
  `MaxFailures` how many do: a failure and another while its error is reported.
- *`Overflow` = 64* (`FlatBatch`), an int of 7 bits: the products of the small rows,
  topK and concurrency fit, as those of sizes below the limit do in 32 bits. `Lengths` = {2} are batches
  whose vectors have the index's dimension.
- *Tags 0..2* (`VisitedListPool`) wrap every third search; marks of uninitialised
  lists take every value. `MaxLost` bounds the searches left by an exception.
- *Four elements* (`StopSearch`): all 38 connected graphs whose links go both
  ways, every choice of documents and of the element where the descent ends. Up to
  three elements are refused by the filter, in searches for documents one. Two of the
  conditions ask for no result at all, which the entry point becomes all the same.
- *Two slots for three labels* (`Bruteforce`) give a full array, a removal that
  moves the other element, and an add that updates. `MaxLoads` bounds the loads.

Fairness. `ParallelFor!FairSpec` gives weak fairness to the calling thread and
to each worker: the operating system runs every thread. The mutex needs no more,
as each thread takes it once. `HnswIndex!FairSpec` gives each goroutine weak
fairness of its own steps and strong fairness of `Lock`: Go schedules every
goroutine, and a sync.Mutex passes to a waiter that has waited too long (its
starvation mode), so a writer that finds the mutex free again and again gets it.
C calls are assumed to end. The finalizer needs no fairness: it runs when nobody
has the handle. `ConcurrentInsert!FairSpec` gives weak fairness to the steps of
each thread, as the operating system does; a list lock is held for one step
except by an insert that holds its own element's, which nobody waits for before
it is linked, and `global` is held by an insert that ends itself, so no strong
fairness is needed.
No fairness is put on starting calls, on dropping the handle or on the collector.

### Findings

1. **A live point that its label does not reach** (`LabelTable_LiveLabelFound`).
   Delete `a`; `a` comes back in another deleted slot while its old slot, still
   labelled `a`, stays on the free list. When the old slot is replaced,
   `label_lookup_.erase(label_replaced)` (`hnswalg.h:985`) removes the entry of the
   live `a`. GetDataByLabel and MarkDeleted then fail for a point that searches
   return. `hnsw.go:288` promises the vector of the given label.
2. **A descent through a list that is not there** (`ConcurrentInsert_NeverWild`).
   `hnswalg.h:1263-1264` stores the new entry point and `maxlevel_` one after the
   other, in an order the build is free to choose, and updatePoint reads both
   without `global` (`hnswalg.h:999`). An update between the stores takes the new
   level and the old entry point.
3. **ResizeIndex(0) frees the base layer** of an empty index and fails, and Free
   frees it again (`IndexMemory_SafeWithoutFailures`, `hnswalg.h:644`).

Observations made while modelling. They mark where the properties stop; the
named module reaches each, some with larger constants than the runs have:

- `LabelTable`: `replaceDeleted` with a label that is present gives it a second
  live slot (`hnswalg.h:977-991`). With `careful` callers this and finding 1 do not
  happen, which is the precondition to document.
- `ConcurrentAdd`: a row that adds a deleted label can be led to its slot between
  the taking of the slot by another row and the update of the lookup table. It
  fails with "Can't use addPoint to update deleted elements"; the comment at
  `hnswalg.h:980` assumes that there is no such row. No two threads write the slot.
- `ConcurrentInsert`: only an update looks whether the element is in a neighbour's
  list already (`hnswalg.h:575`); an insert whose neighbour was relinked by an update
  after the search enters itself again. `NoDuplicateLinks` is about inserts alone.
- `HnswGraph`: thinning a full list (`hnswalg.h:603`) may drop the only link to an
  element; six inserts are enough. When all that a search can reach is marked
  deleted and the entry point is not, mutuallyConnectNewElement takes back() of an
  empty vector (`hnswalg.h:524`).
- `Persistence`: saveIndex looks at no result of the stream (`hnswalg.h:686`), so a
  full disk gives a short file and success. Two goroutines may Save to one file
  at once (Save takes the lock shared), and the file between them can have a hole
  whose sizes add up for the check of `hnswalg.h:769`.
- `IndexMemory`: a loadIndex that fails at `hnswalg.h:805` loses the base layer,
  `linkLists_` and every list made before, since the destructor of an object whose
  constructor throws does not run. When the allocation at `hnswalg.h:1208` fails the element has been
  counted without its list; a shrinking resize that fails half way leaves
  `max_elements_` above the length of arrays already replaced (`hnswalg.h:637`).
- `FlatBatch`: only the first vector's length is checked (`hnsw.go:189`), so that a
  ragged batch is shifted; `rows * k` (`hnsw_wrapper.cc:326`) and
  `num_threads * d` (`hnsw_wrapper.cc:249`) may wrap for arguments near the limit of an int.
- `ParallelFor`: a thread that cannot be created while others run ends the process
  (`hnsw_wrapper.cc:62`), though the call has an error to return.
- `StopSearch`: with equal distances the search's heap and the condition's own may
  drop different documents (`stop_condition.h:201`). searchStopConditionClosest copies
  pairs of distance and internal id (`hnswalg.h:1371`) into a result declared as
  pairs of distance and label (`hnswalg.h:1327`); searchKnn converts at that place
  (`hnswalg.h:1320`). `SearchExact` is therefore about the elements with these ids.
- `Bruteforce`: removePoint erases the dictionary's node (`bruteforce.h:94`) and reads the
  slot from it (`bruteforce.h:96`). glibc mostly leaves that number in place; an allocator that
  fills freed memory, or another thread that is given it, does not, and the last element
  is copied over a wrong slot or outside of the array. loadIndex restores the array and leaves
  the dictionary empty (`bruteforce.h:152`), so that removePoint of a label
  that the index holds returns without a word (`bruteforce.h:90`) and searches still find
  it, and adding the label gives it a second slot. Removing the last slot sets the dictionary
  entry just erased (`bruteforce.h:98`); a filter uses the bound before there are k
  results (`bruteforce.h:121`); saveIndex takes no lock and may write a slot that is not
  copied yet (`bruteforce.h:138`). Each but the filter is a step of the model with
  its slip; `KnnNearest` stops there.

## 4. Proofs

What TLAPS proves, for every value of the constants within the named assumption
on them that the module states (`ConstantsAssumption`, `BatchAssumption`,
`GraphAssumption` and `NobodyAssumption`, `KernelAssumption`, `MemoryAssumption`,
and `PartsAssumption`, which joins those of the models that run side by side).
They ask for what the program's types and arguments are - sizes that are natural
numbers, finitely many goroutines, at least one link to an element - and for
"nobody" and "no label" to be different from all threads and labels. `GeneralPosition`
is asked of the vectors of `HnswGraph`, and used for `KnnExact` only. TLC evaluates
each on the instances of the runs. Each inductive invariant was an invariant of a
run of TLC before it was proved.

- **`LabelTableProofs`**. `IndInv` joins `TypeOK` (which covers the saved file),
  `LookupSound`, `DeletedAccounting` and `FreeListExact`. The parts need each
  other: unmarking keeps the count right only if the slot was marked, a replaced
  slot is marked because the free list is exact, and a lookup stays sound under
  relabelling because the old label's entry is removed. `MarkedAfterWrite` and
  `MarkedAfterAppend` relate the marked slots before and after one write;
  `RebuiltFacts` says what loadIndex's loop leaves in the table, resting on
  `MaxIsLast` (a set of slots has a last one, by well-foundedness of `<`).
  `LookupCompleteHolds` adds `CompleteInv`, which counts in the saved file and
  speaks of `careful` callers only: finding 1 shows that others do not have it.
  `ReplacementSparesLive` (an action property) goes through the calls: each writes
  one slot that it was led to by its label or by the free list, whose slots are
  marked, or replaces the table by a loaded one. `TableImplementsLabelIndex` is the
  refinement of `LabelIndex`, for all labels at once. What makes it work is
  `SizeIsLen`: with every slot found, labels and slots correspond one to one, so
  that the table is full exactly when the abstract index is, and `RebuiltIsSame`:
  a load gives every label the slot it had when it was saved.
- **`ConcurrentAddProofs`**. A thread in addPoint holds the lock of its label, not of
  the slot it writes. `Kept` says what still keeps threads apart: labels in work
  differ by their locks (`LabelsLocked`), a slot has one user (`OneUser`), who finds
  in it what he left there (`SlotOf`, place by place), and a label that leads
  to another's slot is between two writes of a thread (`LookupsKept`). A
  slot popped from the free list has no other user because it is marked, and a
  thread that came to a marked slot by its label is refused. `Careful` adds what
  needs callers that pass replaceDeleted with new, distinct labels only: all slots are
  found, no two rows of a batch share a label, and a finished row's vector stays.
- **`ConcurrentInsertProofs`**, the largest. A thread holds at most one list's lock,
  and every list may change between two of its steps. `Kept` says per row what stays true
  meanwhile: elements it collected were linked at the level when they were found and stay
  so (`SetsKept`), the entry point it read was linked and as high as the level it read
  with it, or higher by now (`CopiesKept`), unless an update read the two apart and
  has not moved yet (`AtStart`, where finding 2 lies). `Ranks` and
  `EntryKept` say who holds `global` and how far `maxlevel_` and
  `enterpoint_node_` have been stored, in either order; `ListsKept` is the graph: lists fit
  their memory and lead to other elements that are linked at the level. From it
  `LinksSound` and `EntryAtTop` follow. `InsertsOnly` strengthens it for batches
  without updates: a new element is in no list before it enters itself, so that no
  list repeats an element, and no wild read happens. The lemmas at its
  beginning say what adding to and removing from a list does to its length.
- **`ParallelForProofs`**. The invariant says that rows not reached by `current`
  were never taken and that, until an exception is captured, every row below it
  was (`CallsFollowCurrent`); that a thread at work has a row of its own taking, in
  its own segment (`ActiveRows`, `OwnRow`); that a taken row is finished, in work, or
  an exception is captured (`NoRowLost`); and how far the caller is, also when a
  thread could not be created (`CallerState`). From it follow all safety properties
  of the run, for any number of rows, threads and throwing rows.
- **`BesideProofs`**, visited lists. Beside the checked properties the invariant needs
  `MarksBelowTag` - no mark exceeds its list's tag, which uninitialised memory
  satisfies only because a new list starts at the largest tag - and `Holding`. So an
  incremented tag differs from every mark, and a wrapped one finds the marks cleared,
  for any tag width. `RoomForOne` counts the lists held to bound the pool
  (`NoListLeaked`: every list is in the pool, in use, or lost to an exception).
- **`HnswIndexProofs`**. `IndInv` says who holds the lock at which place (`Locks`,
  `Exclusion`), what a caller may rely on there (`Pointer`: a C call in progress
  means live memory), that `content` differs from `committed` only by the rows of
  the batch in progress (`Rows`, `After`: each row appends at most one element or takes
  at most one mark away), what a reading call has seen (`Answered`), and what
  holds once the last reference is gone (`Ending`). `HandleIsAtomic` is the
  refinement of `AtomicIndex`: every step is a stutter or one step of it, a
  call taking effect in the step that fixes its answer.
- **`BoundaryProofs`**, distances. For every dimension, build and processor, under
  `KernelAssumption`. The loops of a kernel form a `Chain`: each begins where the one before
  ended, ends a multiple of its step later, and the last ends at the
  dimension. `KernelInv` says that the running kernel is a chain, how far it
  is, and that exactly the coordinates before that point were added, once each. The
  unrolled loops are chains because `16 * (d \div 16)` and `4 * (d \div 4)` are
  multiples no greater than `d`, and a residual begins at one of them.
- **`BoundaryProofs`**, memory. `Kept` balances the heap (`Balanced`): for each kind of block
  the heap holds the index's share, what the calls in progress have to free, and
  what failed constructors lost (`lost`), which `LostKept` bounds: a base layer each, a
  `linkLists_` only beside one, and lists only beside that, as many as the load had
  room for. That is inductive without regard to the index's
  soundness; `Whole` - every list allocated, arrays no shorter than `max_elements_`,
  nothing freed twice - only as long as no failed call left the index unsound
  (`slips`). `HeldIn` sums over the goroutines, so that a step of one changes the sum by
  what it takes or gives.
- **`BoundaryProofs`**, the file. `QuietFileComplete` follows from `FileKept`: every
  saver still has to write what its stream has not taken, and with one save at a time
  the file has no hole before the stream's offset. `LoadExact` compares loadIndex,
  which walks the file by the sizes it reads in it, with what was saved. The walk is
  a recursive function, so that `ReadSoFar` can be proved for each number of blocks by
  induction (`UpTo`, from the well-foundedness of `<`; `Recursion` says that the
  function it is equal to exists): after `n` blocks the position is where block `n`
  was written and the levels read are those of the file's snapshot. So the walk ends
  at the end of the file exactly if the writer did (`LoadsExact`), however long the file is.
- **`BoundaryProofs`**, the batch. `ArraysFit` needs that no product of the sizes of a
  call is too large for an int (`ProductsFit`), as the observation on `FlatBatch` above
  says, and nothing about the vectors' lengths. `RowsMatch` needs besides that all
  vectors have the index's dimension (`Lengths = {Dim}`): then row `r` of the
  flat array is where the thread that takes row `r` reads (`FlatTo`), and what
  two rows write does not meet (`PartsApart`), whatever order the rows are taken in.
- **`BesideProofs`**, the stop conditions. `AccountExact` relates two containers that
  different code keeps: the search's heap and the condition's counters and heap of entries.
  `Accounts(T, n, c, b)` says that the counters and entries are those of the
  points `T`; adding a point keeps it (`AccountAdds`), and so does removing one
  (`AccountForgets`), if the entry on top of the condition's heap is that point's. It is,
  because the search removes its farthest and no two distances are equal (`TopIs`).
- **`BesideProofs`**, what a search with a stop condition returns (`SearchExact`), as
  elements by their internal ids.
  `ExactKept` says in every step why a seen element is not in the result (`Cut`: enough
  closer ones are, or it is outside of the region) and that it is beyond all that are
  (`PrefixKept`), for which `lowerBound` has to be the farthest result's distance
  (`LowerKept`). On the other side nothing is seen that is not `Reached`
  (`WithinKept`), and a `Wide` condition, or an entry point linked to everything, lets the
  search see all of it (`ReachKept`, `EntryKept`: the entry point's own list
  is looked through unless the entry point is itself out of the region). `Reached`
  is a recursive function; it is the smallest closed set because a set that is
  not closed grows and there are only so many elements (`ReachedFacts`).
- **`BesideProofs`**, the brute force index. As long as it is only used in the ways it
  stands and removals read what was in the node (`slips = {}`), `DictKept` holds: dictionary and array are one to one, a removal
  moves the last slot and its entry together, and a slot has its label's point unless
  an add has yet to copy it. A search is a recursive function over the slots, proved by
  `Recursion`: what it holds after a slot are the `Best` of those so far
  (`BestAdds`, `BestKeeps`), and popping them in turn gives each its rank
  (`CloserFirst`).
- **`HnswGraphProofs`**, links. A loop is a function repeated on a state, and two
  lemmas do for all of them: it stays in every set its turns stay in
  (`RepeatedKeeps`), and it has ended if each turn makes a number smaller
  (`RepeatedEnds`), so that the steps the model gives it suffice. `IndInv` says that
  there are levels that the lists agree with (`Leveled`); only the element being added
  gets a new one. From it follows `GraphSound`: a search never leaves a set of elements
  that no list leads out of (`SearchStays`), so the candidates at a level are elements of
  that level; a new element is none of its own candidates, since no list of a lower
  level leads to it before that level is linked (`Inside`, in `LinkLevelsFit`); and the
  heuristic never keeps more than it may (`HeuristicKeeps`).
- **`HnswGraphProofs`**, searches. Two things stay true in every turn: what was visited,
  is live and is no result is farther than all of a full result (`Dropped`), and what is
  no candidate any more has been expanded (`Expanded`). A search ends with nothing to
  expand, or with a full result all of which is expanded (`SearchEnds`,
  `FoundExpanded`); that is a local optimum, and all that can be reached when the search
  is as wide as the index (`WideTop`). It rests on `KClosestCount`: a set has exactly `k`
  elements with fewer than `k` closer ones. `HeuristicExact` has an invariant of its
  own (`Sifted`: candidates done come before the rest, and what is kept of them is
  what the whole answer keeps), and needs no more of the queue than that its order is
  strict and total (`Ahead`). `KnnExact` alone needs `Distinct` and `GeneralPosition`: no two
  elements have the same vector, and no two points the same distance from a third.
- Each module also proves its types: `TypeCorrect` (`KernelTypeCorrect`,
  `MemoryTypeCorrect`), or as a part of its invariant.

Only model-checked: the liveness properties `BatchReturns`, `CallsReturn` and
`RowsFinish` (fairness and ENABLED are beyond TLAPS). Every safety property of a
passing run has a theorem.

## 5. Not modelled, and the plan

Not modelled:

- The values of distances, and rounding: `DistanceKernels` is about coordinates.
- Two memcpy into one brute-force slot at the same time, which tear the vector:
  any mixture may result, so there is nothing to relate.
- `MultiVectorInnerProductSpace`, which never sets the size it passes to its functions.
- Searches of `HnswGraph` and `StopSearch` with equal distances, where the standard library's heap decides.
- The example program and the tests, logging, and the metrics
  (`metric_hops`, `metric_distance_computations`), which nothing reads.

Planned, in this order:

1. The searches of `HnswGraph` with a rule for equal distances.
