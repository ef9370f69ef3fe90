----------------------------- MODULE FlatBatch -----------------------------
(***************************************************************************)
(* The data path of a batch through hnsw.go and hnsw_wrapper.cc: vectors   *)
(* are flattened in Go, rows are cut out of the flat array in C, worker    *)
(* threads normalise into segments of one array and put their results into *)
(* one flat result, and Go cuts that into rows again.  Sizes are computed  *)
(* in C ints, which wrap.                                                  *)
(*                                                                         *)
(* A coordinate is the pair of its vector and its place, so that a row cut *)
(* out at a wrong offset shows.  The search is abstract: what it finds for *)
(* a query are the pairs of the query and a rank, 0 the nearest.           *)
(***************************************************************************)
EXTENDS Integers, Sequences, FiniteSets, SequencesExt

CONSTANTS
  Dim,           \* the dimension of the index
  MaxRows,       \* bound: vectors of a batch
  Lengths,       \* the lengths a vector may have
  MaxTopK,       \* bound: topK
  Count,         \* elements of the index
  Concurrency,   \* values of the argument concurrency
  Overflow       \* the first number a C int does not hold: 2^(w - 1), with w bits

FlatBatchAssumption ==
  /\ Dim \in Nat \ {0} /\ Lengths \subseteq Nat /\ MaxRows \in Nat /\ MaxTopK \in Nat
  /\ Count \in Nat /\ Overflow \in Nat \ {0} /\ Concurrency \subseteq Nat \ {0}

VARIABLES
  call,     \* the last call: what it does, its vectors and arguments
  status,   \* of that call: running, ok or error
  flat,     \* the flattened vectors
  threads,  \* the number of threads after the decision not to use any
  room,     \* length of the result arrays
  norm,     \* length of norm_array
  done,     \* rows a thread has finished
  out,      \* offset -> what was written there
  answer    \* what Go returned

vars == <<call, status, flat, threads, room, norm, done, out, answer>>

Unreadable == <<0, 0>>     \* what lies past the end of an array

(* A number stored in a C int.                                             *)
Int_(n) == LET m == n % (2 * Overflow) IN IF m < Overflow THEN m ELSE m - 2 * Overflow

Batches == UNION {[1 .. n -> Lengths] : n \in 0 .. MaxRows}
Vector(lens, r) == [j \in 1 .. lens[r] |-> <<r, j>>]
Rows == DOMAIN call.lens
Nothing == [o \in {} |-> Unreadable]

-----------------------------------------------------------------------------
Init ==
  /\ call = [op |-> "none", lens |-> <<>>, topK |-> 0, concurrency |-> 1, normalize |-> FALSE]
  /\ status = "ok"
  /\ flat = <<>> /\ threads = 0 /\ room = 0 /\ norm = 0
  /\ done = {} /\ out = Nothing /\ answer = Nothing

flatten2DArray(lens) == FlattenSeq([r \in DOMAIN lens |-> Vector(lens, r)])

ThreadsFor(rows, concurrency) == IF rows <= Int_(concurrency * 4) THEN 1 ELSE concurrency

(* Bug: the decision against threads is not looked at for the array.       *)
BeginOneSegment(c) ==
  /\ status # "running" /\ status' = "running"
  /\ call' = c
  /\ flat' = flatten2DArray(c.lens)
  /\ threads' = ThreadsFor(Int_(Len(c.lens)), c.concurrency)
  /\ norm' = IF c.normalize THEN Dim ELSE 0
  /\ done' = {} /\ out' = Nothing /\ answer' = Nothing

Begin(c) ==
  /\ status # "running" /\ status' = "running"
  /\ call' = c
  /\ flat' = flatten2DArray(c.lens)
  /\ threads' = ThreadsFor(Int_(Len(c.lens)), c.concurrency)
  /\ norm' = IF c.normalize THEN Int_(threads' * Dim) ELSE 0
  /\ done' = {} /\ out' = Nothing /\ answer' = Nothing

(* Both calls compare only the first vector with the dimension.            *)
Accepted(lens) == lens # <<>> /\ lens[1] = Dim

AddPoints(lens, concurrency, normalize) ==
  /\ Accepted(lens)
  /\ Begin([op |-> "add", lens |-> lens, topK |-> 1, concurrency |-> concurrency, normalize |-> normalize])
  /\ room' = Len(lens)

(* new[] refuses a negative length, and searchKnn returns an error.        *)
SearchKNN(lens, topK, concurrency, normalize) ==
  /\ Accepted(lens)
  /\ topK <= Count
  /\ Int_(Len(lens) * topK) >= 0
  /\ Begin([op |-> "search", lens |-> lens, topK |-> topK, concurrency |-> concurrency, normalize |-> normalize])
  /\ room' = Int_(Len(lens) * topK)

(* A row read where the thread expects it, row * d.                        *)
Read(r) ==
  [j \in 1 .. Dim |-> LET at == (r - 1) * Dim + j
                      IN  IF at <= Len(flat) THEN flat[at] ELSE Unreadable]

(* Bug: the results are put down in the order they are popped.             *)
WritesAsPopped(r) ==
  IF call.op = "add" THEN [o \in {r - 1} |-> Read(r)]
  ELSE [o \in (r - 1) * call.topK .. r * call.topK - 1 |->
          <<Read(r), r * call.topK - 1 - o>>]

(* What row r writes: its point into the index, or the results popped from *)
(* the queue, the farthest first, into its part of the result from the end *)
(* to the front.                                                           *)
Writes(r) ==
  IF call.op = "add" THEN [o \in {r - 1} |-> Read(r)]
  ELSE [o \in (r - 1) * call.topK .. r * call.topK - 1 |->
          <<Read(r), o - (r - 1) * call.topK>>]

(* Without threads the rows are done in order.                             *)
Turn(r) ==
  /\ status = "running"
  /\ r \in Rows \ done
  /\ threads = 1 => \A q \in Rows : q < r => q \in done

DoRow(r) ==
  /\ Turn(r)
  /\ LET w == Writes(r)
     IN  out' = [o \in DOMAIN out \union DOMAIN w |-> IF o \in DOMAIN w THEN w[o] ELSE out[o]]
  /\ done' = done \union {r}
  /\ UNCHANGED <<call, status, flat, threads, room, norm, answer>>

(* The row throws: an add fails, or a search finds fewer than topK.        *)
RowThrows(r) ==
  /\ Turn(r)
  /\ status' = "error"
  /\ UNCHANGED <<call, flat, threads, room, norm, done, out, answer>>

(* Go cuts the flat result into rows.                                      *)
Finish ==
  /\ status = "running"
  /\ done = Rows
  /\ status' = "ok"
  /\ answer' = IF call.op = "add" THEN out
               ELSE [r \in Rows |-> [j \in 0 .. call.topK - 1 |-> out[(r - 1) * call.topK + j]]]
  /\ UNCHANGED <<call, flat, threads, room, norm, done, out>>

Next ==
  \/ \E lens \in Batches, concurrency \in Concurrency, normalize \in BOOLEAN :
       \/ AddPoints(lens, concurrency, normalize)
       \/ \E topK \in 0 .. MaxTopK : SearchKNN(lens, topK, concurrency, normalize)
  \/ \E r \in Rows : DoRow(r) \/ RowThrows(r)
  \/ Finish

Spec == Init /\ [][Next]_vars

-----------------------------------------------------------------------------
(* Properties.                                                             *)

Own(r) == [j \in 1 .. Dim |-> <<r, j>>]

(* Types; no thread writes a row twice and the arrays have C lengths.      *)
TypeOK ==
  /\ call.op \in {"none", "add", "search"} /\ status \in {"running", "ok", "error"}
  /\ flat \in Seq(Rows \X Nat)
  /\ threads \in 0 .. Overflow - 1
  /\ done \subseteq Rows
  /\ Cardinality(DOMAIN out) = Cardinality(done) * call.topK

(* Whatever the order of the threads, a successful AddPoints has stored    *)
(* under each label the vector that came with it, and row i of a           *)
(* successful SearchKNN holds the topK results of query i, nearest first.  *)
RowsMatch ==
  status = "ok" =>
    \A r \in Rows :
      IF call.op = "add" THEN answer[r - 1] = Own(r)
      ELSE answer[r] = [j \in 0 .. call.topK - 1 |-> <<Own(r), j>>]

(* Results are written inside of the arrays allocated for them, and every  *)
(* worker thread has a whole segment of norm_array to itself.              *)
ArraysFit ==
  /\ DOMAIN out \subseteq 0 .. room - 1
  /\ status = "running" /\ call.normalize => \A t \in 0 .. threads - 1 : (t + 1) * Dim <= norm

=============================================================================
