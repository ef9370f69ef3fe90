----------------------------- MODULE ParallelFor -----------------------------
(***************************************************************************)
(* One batch of rows run by the worker threads of hnsw_wrapper.cc:         *)
(* resolveThreadCount, ParallelFor and the row functions that addPoints    *)
(* and searchKnn hand to it.                                               *)
(*                                                                         *)
(* The row function of the Cosine space writes the normalised row into the *)
(* norm_array segment of its thread and calls the index on that segment;   *)
(* the row is finished, or the index throws.  Which rows throw is chosen   *)
(* at the start (a full index, a short search result).                     *)
(***************************************************************************)
EXTENDS Integers, FiniteSets

CONSTANTS
  Rows,                 \* how many rows the batch has
  Concurrency,          \* the concurrency arguments callers pass
  HardwareConcurrency,  \* std::thread::hardware_concurrency(), 0 if unknown
  MaxFailing            \* bound on how many rows throw

ASSUME ConstantsAssumption ==
  /\ Rows \in Nat \ {0}
  /\ Concurrency \subseteq Int
  /\ HardwareConcurrency \in Nat
  /\ MaxFailing \in Nat

Row == 0..(Rows - 1)
NoRow == -1

(* At least one thread; the hardware's number of threads by default. *)
ResolveThreadCount(n) ==
  IF n > 0 THEN n
  ELSE IF HardwareConcurrency > 0 THEN HardwareConcurrency
  ELSE 1

(* Small batches are run by the calling thread. *)
EffectiveThreads(n) ==
  IF Rows <= ResolveThreadCount(n) * 4 THEN 1 ELSE ResolveThreadCount(n)

VARIABLES
  numThreads,     \* numThreads of ParallelFor
  failing,        \* the rows the index throws for
  current,        \* the shared atomic row counter
  lastException,  \* the row whose exception was captured last, or NoRow
  mutexHolder,    \* the thread inside lastExceptMutex, or -1
  caller,         \* the calling thread: "spawn", "join", "looping" or "returned";
                  \* "terminated" when the process has ended
  spawned,        \* how many worker threads were created
  joined,         \* how many worker threads were joined
  pc,             \* thread -> where it is
  row,            \* thread -> the row it runs
  norm_array,     \* thread -> the row its segment holds, or NoRow
  calls,          \* row -> how often the row function was called for it
  finished,       \* the pairs <<row, contents of the segment used for it>>
  outcome         \* "none", "ok" or "error"

vars == <<numThreads, failing, current, lastException, mutexHolder, caller,
          spawned, joined, pc, row, norm_array, calls, finished, outcome>>

NoThread == -1
Thread == 0..(numThreads - 1)

Init ==
  /\ \E n \in Concurrency : numThreads = EffectiveThreads(n)
  /\ failing \in SUBSET Row
  /\ Cardinality(failing) <= MaxFailing
  /\ current = 0
  /\ lastException = NoRow
  /\ mutexHolder = NoThread
  /\ caller = IF numThreads = 1 THEN "looping" ELSE "spawn"
  /\ spawned = 0
  /\ joined = 0
  /\ pc = [t \in Thread |-> IF numThreads = 1 THEN "fetch" ELSE "unborn"]
  /\ row = [t \in Thread |-> NoRow]
  /\ norm_array = [t \in Thread |-> NoRow]
  /\ calls = [r \in Row |-> 0]
  /\ finished = {}
  /\ outcome = "none"

-----------------------------------------------------------------------------
(* The calling thread.                                                     *)

Return(result) ==
  /\ caller' = "returned"
  /\ outcome' = result

Spawn ==
  /\ caller = "spawn"
  /\ IF spawned < numThreads
       THEN /\ pc' = [pc EXCEPT ![spawned] = "fetch"]
            /\ spawned' = spawned + 1
            /\ UNCHANGED caller
       ELSE /\ caller' = "join"
            /\ UNCHANGED <<pc, spawned>>
  /\ UNCHANGED <<numThreads, failing, current, lastException, mutexHolder,
                 joined, row, norm_array, calls, finished, outcome>>

(* Bug: threads that run are left behind when another cannot be created.   *)
SpawnFailsDetached ==
  /\ caller = "spawn"
  /\ spawned < numThreads
  /\ Return("error")
  /\ UNCHANGED <<numThreads, failing, current, lastException, mutexHolder, spawned,
                 joined, pc, row, norm_array, calls, finished>>

(* A thread cannot be created.  The exception of the first is the error of *)
(* the call.  With a thread in the vector, or one that push_back could not *)
(* put there, a joinable thread is destroyed: std::terminate.              *)
SpawnFails ==
  /\ caller = "spawn"
  /\ spawned < numThreads
  /\ \/ spawned = 0 /\ Return("error")
     \/ caller' = "terminated" /\ UNCHANGED outcome
  /\ UNCHANGED <<numThreads, failing, current, lastException, mutexHolder, spawned,
                 joined, pc, row, norm_array, calls, finished>>

(* Bug: the last thread is not waited for. *)
JoinTooFew ==
  /\ caller = "join"
  /\ IF joined < numThreads - 1
       THEN /\ pc[joined] = "exited"
            /\ joined' = joined + 1
            /\ UNCHANGED <<caller, outcome>>
       ELSE /\ Return(IF lastException # NoRow THEN "error" ELSE "ok")
            /\ UNCHANGED joined
  /\ UNCHANGED <<numThreads, failing, current, lastException, mutexHolder,
                 spawned, pc, row, norm_array, calls, finished>>

(* The threads are joined in order; then the captured exception, if any,   *)
(* is rethrown and becomes the error of the call.                          *)
Join ==
  /\ caller = "join"
  /\ IF joined < numThreads
       THEN /\ pc[joined] = "exited"
            /\ joined' = joined + 1
            /\ UNCHANGED <<caller, outcome>>
       ELSE /\ Return(IF lastException # NoRow THEN "error" ELSE "ok")
            /\ UNCHANGED joined
  /\ UNCHANGED <<numThreads, failing, current, lastException, mutexHolder,
                 spawned, pc, row, norm_array, calls, finished>>

-----------------------------------------------------------------------------
(* The rows.                                                               *)

(* Bug: the counter read and incremented in two steps, as a thread that    *)
(* overtook another sees it.                                               *)
FetchNotAtomic(t) ==
  /\ pc[t] = "fetch"
  /\ \E seen \in {current, current - 1} \intersect Row :
       /\ row' = [row EXCEPT ![t] = seen]
       /\ pc' = [pc EXCEPT ![t] = "normalize"]
       /\ calls' = [calls EXCEPT ![seen] = @ + 1]
  /\ current' = current + 1
  /\ UNCHANGED <<numThreads, failing, lastException, mutexHolder, spawned, joined,
                 norm_array, finished, caller, outcome>>

(* One atomic fetch_add hands out the next row (with a single thread, the  *)
(* step of a plain loop that ends by returning).                           *)
Fetch(t) ==
  /\ pc[t] = "fetch"
  /\ current' = current + 1
  /\ row' = [row EXCEPT ![t] = current]
  /\ IF current >= Rows
       THEN /\ pc' = [pc EXCEPT ![t] = "exited"]
            /\ UNCHANGED calls
            /\ IF caller = "looping" THEN Return("ok") ELSE UNCHANGED <<caller, outcome>>
       ELSE /\ pc' = [pc EXCEPT ![t] = "normalize"]
            /\ calls' = [calls EXCEPT ![current] = @ + 1]
            /\ UNCHANGED <<caller, outcome>>
  /\ UNCHANGED <<numThreads, failing, lastException, mutexHolder, spawned, joined,
                 norm_array, finished>>

(* Bug: one buffer for all threads. *)
NormalizeShared(t) ==
  /\ pc[t] = "normalize"
  /\ norm_array' = [u \in Thread |-> row[t]]
  /\ pc' = [pc EXCEPT ![t] = "index"]
  /\ UNCHANGED <<numThreads, failing, current, lastException, mutexHolder, caller,
                 spawned, joined, row, calls, finished, outcome>>

(* start_idx = threadId * d *)
Normalize(t) ==
  /\ pc[t] = "normalize"
  /\ norm_array' = [norm_array EXCEPT ![t] = row[t]]
  /\ pc' = [pc EXCEPT ![t] = "index"]
  /\ UNCHANGED <<numThreads, failing, current, lastException, mutexHolder, caller,
                 spawned, joined, row, calls, finished, outcome>>

(* addPoint or searchKnn on the segment: it finishes the row or throws.    *)
(* With a single thread the exception leaves the loop and the call.        *)
CallIndex(t) ==
  /\ pc[t] = "index"
  /\ IF row[t] \notin failing
       THEN /\ finished' = finished \union {<<row[t], norm_array[t]>>}
            /\ pc' = [pc EXCEPT ![t] = "fetch"]
            /\ UNCHANGED <<lastException, caller, outcome>>
       ELSE IF caller = "looping"
         THEN /\ lastException' = row[t]
              /\ Return("error")
              /\ pc' = [pc EXCEPT ![t] = "exited"]
              /\ UNCHANGED finished
         ELSE /\ pc' = [pc EXCEPT ![t] = "catch"]
              /\ UNCHANGED <<finished, lastException, caller, outcome>>
  /\ UNCHANGED <<numThreads, failing, current, mutexHolder, spawned, joined, row,
                 norm_array, calls>>

Catch(t) ==
  /\ pc[t] = "catch"
  /\ mutexHolder = NoThread
  /\ mutexHolder' = t
  /\ pc' = [pc EXCEPT ![t] = "capture"]
  /\ UNCHANGED <<numThreads, failing, current, lastException, caller, spawned,
                 joined, row, norm_array, calls, finished, outcome>>

Capture(t) ==
  /\ pc[t] = "capture"
  /\ lastException' = row[t]
  /\ pc' = [pc EXCEPT ![t] = "stop"]
  /\ UNCHANGED <<numThreads, failing, current, mutexHolder, caller, spawned, joined,
                 row, norm_array, calls, finished, outcome>>

(* Bug: leaving the handler without releasing the mutex. *)
StopHoldingLock(t) ==
  /\ pc[t] = "stop"
  /\ current' = Rows
  /\ pc' = [pc EXCEPT ![t] = "exited"]
  /\ UNCHANGED <<numThreads, failing, lastException, mutexHolder, caller, spawned,
                 joined, row, norm_array, calls, finished, outcome>>

(* current = end keeps the other threads from taking further rows; leaving *)
(* the handler releases the mutex.                                         *)
Stop(t) ==
  /\ pc[t] = "stop"
  /\ current' = Rows
  /\ mutexHolder' = NoThread
  /\ pc' = [pc EXCEPT ![t] = "exited"]
  /\ UNCHANGED <<numThreads, failing, lastException, caller, spawned, joined, row,
                 norm_array, calls, finished, outcome>>

Step(t) ==
  \/ Fetch(t)
  \/ Normalize(t)
  \/ CallIndex(t)
  \/ Catch(t)
  \/ Capture(t)
  \/ Stop(t)

Caller == Spawn \/ SpawnFails \/ Join

(* The call has returned, or the process has ended. *)
Ended == caller \in {"returned", "terminated"} /\ UNCHANGED vars

Next ==
  \/ Caller
  \/ \E t \in Thread : caller # "terminated" /\ Step(t)
  \/ Ended

Spec == Init /\ [][Next]_vars

(* The operating system schedules every thread.  Weak fairness is enough   *)
(* for the mutex: a thread takes it at most once, so a waiter finds it     *)
(* free for good.  numThreads is chosen by Init, hence the outer bound.    *)
AnyThread == UNION {0..(EffectiveThreads(n) - 1) : n \in Concurrency}

FairSpec ==
  /\ Spec
  /\ WF_vars(Caller)
  /\ \A t \in AnyThread : WF_vars(t \in Thread /\ caller # "terminated" /\ Step(t))

-----------------------------------------------------------------------------

PC == {"unborn", "fetch", "normalize", "index", "catch", "capture", "stop", "exited"}

(* Segments and rows in use are those of the batch: no row beyond the end  *)
(* is ever read, no segment beyond norm_array written.                     *)
TypeOK ==
  /\ numThreads \in Nat \ {0}
  /\ failing \subseteq Row
  /\ current \in Nat
  /\ lastException \in Row \union {NoRow}
  /\ mutexHolder \in Thread \union {NoThread}
  /\ caller \in {"spawn", "join", "looping", "returned", "terminated"}
  /\ spawned \in 0..numThreads
  /\ joined \in 0..numThreads
  /\ pc \in [Thread -> PC]
  /\ row \in [Thread -> Nat \union {NoRow}]
  /\ norm_array \in [Thread -> Row \union {NoRow}]
  /\ calls \in [Row -> Nat]
  /\ finished \subseteq Row \X Row
  /\ outcome \in {"none", "ok", "error"}

(* No row is handed out twice, whichever thread stores current = end while *)
(* others increment it: no vector is added by two threads.  The rows taken *)
(* are an initial part of the batch: a failing batch leaves a tail         *)
(* untouched and no hole that was never tried.                             *)
RowsOnce ==
  \A r \in Row :
    calls[r] > 0 => calls[r] = 1 /\ \A q \in 0..r : calls[q] > 0

(* The index is called with the row's own normalised vector: threads never *)
(* share a segment of norm_array.                                          *)
SegmentsPrivate == \A pair \in finished : pair[1] = pair[2]

(* The call reports an error when some row throws, with that row's         *)
(* exception, or when no thread could be created, with no row tried; it    *)
(* reports success only when every row is done.  When it has returned no   *)
(* worker runs any more, so nothing uses the caller's vectors, norm_array  *)
(* or lastException after their frame is gone.                             *)
OutcomeExact ==
  /\ outcome = "error" => lastException \in failing \/ \A r \in Row : calls[r] = 0
  /\ outcome = "ok" => failing = {} /\ \A r \in Row : <<r, r>> \in finished
  /\ caller = "returned" => \A t \in Thread : pc[t] \in {"unborn", "exited"}

(* Every batch ends, with or without exceptions, unless the process does.  *)
BatchReturns == <>(caller \in {"returned", "terminated"})

=============================================================================
