------------------------------ MODULE Boundary ------------------------------
(***************************************************************************)
(* What lies around the index: the distance kernels, the file, the memory  *)
(* behind a handle and the data of a batch.                                *)
(*                                                                         *)
(* The four models share nothing.  Each behaviour is one of one model,     *)
(* chosen at the start, while the others stay as they begin.               *)
(***************************************************************************)
EXTENDS DistanceKernels

CONSTANTS
  Saver, Capacities, MaxElements, MaxLevel, MaxSaves, Faults,
  Goroutine, Sizes, MaxFailures, Failing,
  Dim, MaxRows, Lengths, MaxTopK, Count, Concurrency, Overflow

VARIABLES
  part,                                                    \* the model that runs
  index, file, pos, good, saves, mishaps, loaded,          \* Persistence
  heap, open, room, dangling, lists, holds, failed, lost, slips, wrong,  \* IndexMemory
  call, status, flat, threads, places, norm, done, out, answer     \* FlatBatch

File   == INSTANCE Persistence
Memory == INSTANCE IndexMemory
Batch  == INSTANCE FlatBatch WITH room <- places

ASSUME PartsAssumption ==
  File!PersistenceAssumption /\ Memory!MemoryAssumption /\ Batch!FlatBatchAssumption

OneKernel ==
  /\ dim = 1 /\ kernel = L2Sqr(1) /\ loop = 1 /\ p = 0 /\ added = [c \in Coordinate |-> 0]

BoundaryInit ==
  /\ part \in {"distance", "file", "memory", "batch"}
  /\ IF part = "distance" THEN Init ELSE OneKernel
  /\ part # "file" => index = [max |-> CHOOSE c \in Capacities : TRUE, levels |-> <<>>]
  /\ File!Init /\ Memory!Init /\ Batch!Init

file_   == <<index, file, pos, good, saves, mishaps, loaded>>
memory_ == <<heap, open, room, dangling, lists, holds, failed, lost, slips, wrong>>
batch_  == <<call, status, flat, threads, places, norm, done, out, answer>>

BoundaryNext ==
  \/ /\ part = "distance"
     /\ Next \/ (Done /\ UNCHANGED vars)
     /\ UNCHANGED <<part, file_, memory_, batch_>>
  \/ part = "file" /\ File!Next /\ UNCHANGED <<part, vars, memory_, batch_>>
  \/ part = "memory" /\ Memory!Next /\ UNCHANGED <<part, vars, file_, batch_>>
  \/ part = "batch" /\ Batch!Next /\ UNCHANGED <<part, vars, file_, memory_>>

BoundarySpec == BoundaryInit /\ [][BoundaryNext]_<<part, vars, file_, memory_, batch_>>

(* loadIndex makes what saveIndex wrote, or refuses.                       *)
LoadExact == File!TypeOK /\ File!LoadExact

(* Without faults the file is whole once nobody saves.                     *)
QuietFileComplete == File!QuietFileComplete

(* Memory is there when a call of the index uses it.                       *)
NoMemoryErrors == Memory!TypeOK /\ Memory!NoMemoryErrors

(* Every block of the index, of a result or of an error has an owner.      *)
NothingLeaks == Memory!NothingLeaks

(* Rows of a batch keep their vectors and results.                         *)
RowsMatch == Batch!TypeOK /\ Batch!RowsMatch

(* The arrays of a batch hold what its rows write.                         *)
ArraysFit == Batch!ArraysFit

=============================================================================
