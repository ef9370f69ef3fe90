------------------------------ MODULE HnswIndex ------------------------------
(***************************************************************************)
(* The handle of hnsw.go shared by goroutines: the RWMutex around every    *)
(* method, the closed check, the C calls, Free and the finalizer.          *)
(*                                                                         *)
(* A C call is not atomic: a batch is added row by row, a search first     *)
(* asks for the count and then runs, Save and the other readers look at    *)
(* the index more than once.  The index itself is reduced to its counts,   *)
(* and its capacity (LabelTable has the rest).                             *)
(* The mutex is sync.RWMutex: a waiting writer holds back new readers, and *)
(* its Unlock lets in every reader that waited before the next writer.     *)
(***************************************************************************)
EXTENDS Integers, FiniteSets

CONSTANTS
  Goroutine,  \* the goroutines that share the handle
  Finalizer,  \* the runtime's finalizer goroutine
  Sizes,      \* capacities
  Arg         \* topK of a search, rows of an AddPoints

ASSUME ConstantsAssumption ==
  /\ Finalizer \notin Goroutine
  /\ Sizes \subseteq Nat
  /\ Arg \subseteq Nat

Caller == Goroutine \union {Finalizer}

VARIABLES
  writer,     \* mu: the callers that hold, or wait with, the writers' lock
  readers,    \* mu: the callers that hold the read lock
  parked,     \* mu: the readers that arrived behind a writer
  index,      \* idx.index # nil
  memory,     \* the C++ index: "live" or "freed"
  frees,      \* how often freeHNSW ran on it
  content,    \* the C++ index: elements, marked elements, capacity
  committed,  \* content when the last write call ended (history)
  finalizer,  \* is a finalizer set on the handle?
  reachable,  \* does any goroutine still have the handle?
  pc,         \* caller -> where it is in its method
  request,    \* caller -> the method and its argument
  done,       \* caller -> rows its batch has added so far
  answer      \* caller -> the result and the contents read for it

mu   == <<writer, readers, parked>>
data == <<content, committed>>
life == <<index, memory, frees, finalizer, reachable>>
vars == <<writer, readers, parked, index, memory, frees, content, committed,
          finalizer, reachable, pc, request, done, answer>>

ReadOps  == {"search", "read"}
WriteOps == {"add", "mark", "unmark", "resize", "setef", "free"}
Requests ==
  [op : {"search", "add"}, arg : Arg] \union [op : {"resize"}, arg : Sizes]
    \union [op : {"read", "mark", "unmark", "setef", "free"}, arg : {0}]
NoCall   == [op |-> "none", arg |-> 0]
NoAnswer == [result |-> "none", saw |-> {}]

(* New or Load returned a handle, with a finalizer set on it. *)
Created(withFinalizer) ==
  /\ writer = {}
  /\ readers = {}
  /\ parked = {}
  /\ index = TRUE
  /\ memory = "live"
  /\ frees = 0
  /\ content \in [count : {0}, marked : {0}, max : Sizes]
  /\ committed = content
  /\ finalizer = withFinalizer
  /\ reachable = TRUE
  /\ pc = [c \in Caller |-> "idle"]
  /\ request = [c \in Caller |-> NoCall]
  /\ done = [c \in Caller |-> 0]
  /\ answer = [c \in Caller |-> NoAnswer]

(* Bug: the constructor forgets runtime.SetFinalizer. *)
InitWithoutFinalizer == Created(FALSE)

Init == Created(TRUE)

Goto(c, place) == pc' = [pc EXCEPT ![c] = place]

-----------------------------------------------------------------------------
(* sync.RWMutex                                                            *)

RLock(c) ==
  /\ IF writer = {}
       THEN readers' = readers \union {c} /\ Goto(c, "locked") /\ UNCHANGED parked
       ELSE parked' = parked \union {c} /\ Goto(c, "parked") /\ UNCHANGED readers
  /\ UNCHANGED writer

(* The writers' own mutex, and with it the announcement that parks readers.*)
Lock(c) ==
  /\ pc[c] = "lock"
  /\ writer = {}
  /\ writer' = {c}
  /\ Goto(c, "drain")
  /\ UNCHANGED <<readers, parked, data, life, request, done, answer>>

(* The readers that were inside have left. *)
Drained(c) ==
  /\ pc[c] = "drain"
  /\ readers = {}
  /\ Goto(c, "locked")
  /\ UNCHANGED <<mu, data, life, request, done, answer>>

(* The deferred RUnlock or Unlock, and the return to the caller.           *)
Unlock(c) ==
  /\ pc[c] = "unlock"
  /\ answer' = [answer EXCEPT ![c] = NoAnswer]
  /\ request' = [request EXCEPT ![c] = NoCall]
  /\ IF c \in readers
       THEN /\ readers' = readers \ {c}
            /\ Goto(c, "idle")
            /\ UNCHANGED <<writer, parked>>
       ELSE /\ writer' = writer \ {c}
            /\ readers' = readers \union parked
            /\ parked' = {}
            /\ pc' = [b \in Caller |-> IF b = c THEN "idle"
                                       ELSE IF b \in parked THEN "locked" ELSE pc[b]]
  /\ UNCHANGED <<data, life, done>>

-----------------------------------------------------------------------------
(* The methods.                                                            *)

(* Bug: AddPoints takes the shared lock. *)
CallMethodAddShared(c, r) ==
  /\ pc[c] = "idle"
  /\ request' = [request EXCEPT ![c] = r]
  /\ IF r.op \in ReadOps \union {"add"}
       THEN RLock(c)
       ELSE Goto(c, "lock") /\ UNCHANGED mu
  /\ UNCHANGED <<data, life, done, answer>>

(* A method starts by asking for the lock: shared for the methods that     *)
(* read, exclusive for the others.                                         *)
CallMethod(c, r) ==
  /\ pc[c] = "idle"
  /\ request' = [request EXCEPT ![c] = r]
  /\ IF r.op \in ReadOps
       THEN RLock(c)
       ELSE Goto(c, "lock") /\ UNCHANGED mu
  /\ UNCHANGED <<data, life, done, answer>>

Answers(c, result) ==
  /\ Goto(c, "unlock")
  /\ answer' = [answer EXCEPT ![c] = [result |-> result, saw |-> @.saw]]

(* if idx.index == nil { return ErrIndexClosed } *)
CheckClosed(c) ==
  /\ pc[c] = "locked"
  /\ IF index
       THEN Goto(c, "C") /\ UNCHANGED answer
       ELSE Answers(c, "closed")
  /\ UNCHANGED <<mu, data, life, request, done>>

(* The first look at the index.  SearchKNN's topK guard returns here.      *)
ReadFirst(c) ==
  /\ pc[c] = "C"
  /\ request[c].op \in ReadOps
  /\ answer' = [answer EXCEPT ![c] =
       [result |-> IF request[c].op = "search" /\ request[c].arg > content.count
                     THEN "error" ELSE "none",
        saw    |-> {content}]]
  /\ Goto(c, IF request[c].op = "search" /\ request[c].arg > content.count
               THEN "unlock" ELSE "reading")
  /\ UNCHANGED <<mu, data, life, request, done>>

(* Bug: a search that found too few elements is tried again. *)
ReadSecondRetries(c) ==
  /\ pc[c] = "reading"
  /\ IF request[c].op = "search" /\ request[c].arg > content.count - content.marked
       THEN UNCHANGED <<pc, answer>>
       ELSE Goto(c, "unlock") /\ UNCHANGED answer
  /\ UNCHANGED <<mu, data, life, request, done>>

(* The second look.  A search fails when the graph yields fewer than topK  *)
(* live elements; GetDataByLabel, Save or IndexFileSize may fail as well.  *)
ReadSecond(c) ==
  /\ pc[c] = "reading"
  /\ \E result \in {"ok", "error"} :
       /\ request[c].op = "search" /\ result = "ok" =>
            request[c].arg <= content.count - content.marked
       /\ answer' = [answer EXCEPT ![c] =
            [result |-> result, saw |-> @.saw \union {content}]]
  /\ Goto(c, "unlock")
  /\ UNCHANGED <<mu, data, life, request, done>>

(* AddPoints, one row at a time: a new element, one that was marked and is *)
(* now revived or replaced, or one that is there and gets a new vector.  A *)
(* row that fails may have got that far as well.                           *)
AddRow(c) ==
  /\ pc[c] = "C"
  /\ request[c].op = "add"
  /\ done[c] < request[c].arg
  /\ \/ content.count < content.max  /\ content' = [content EXCEPT !.count = @ + 1]
     \/ content.marked > 0           /\ content' = [content EXCEPT !.marked = @ - 1]
     \/ content.marked < content.count /\ UNCHANGED content
  /\ done' = [done EXCEPT ![c] = @ + 1]
  /\ UNCHANGED <<mu, life, request, committed, pc, answer>>

(* The batch ends when all its rows are added, or when one fails.          *)
AddEnds(c) ==
  /\ pc[c] = "C"
  /\ request[c].op = "add"
  /\ \E result \in {"ok", "error"} :
       /\ result = "ok" => done[c] = request[c].arg
       /\ Answers(c, result)
  /\ committed' = content
  /\ done' = [done EXCEPT ![c] = 0]
  /\ UNCHANGED <<mu, life, request, content>>

(* MarkDeleted and UnmarkDeleted; the label may be unknown or already in   *)
(* the wanted state.                                                       *)
MarkOrUnmark(c) ==
  /\ pc[c] = "C"
  /\ \/ /\ request[c].op = "mark"
        /\ content.marked < content.count
        /\ content' = [content EXCEPT !.marked = @ + 1]
        /\ Answers(c, "ok")
     \/ /\ request[c].op = "unmark"
        /\ content.marked > 0
        /\ content' = [content EXCEPT !.marked = @ - 1]
        /\ Answers(c, "ok")
     \/ /\ request[c].op \in {"mark", "unmark"}
        /\ Answers(c, "error")
        /\ UNCHANGED content
  /\ committed' = content'
  /\ UNCHANGED <<mu, life, request, done>>

(* ResizeIndex, which may run out of memory, and SetEf, which changes none *)
(* of what is kept here: no count or answer depends on ef.                 *)
ResizeOrSetEf(c) ==
  /\ pc[c] = "C"
  /\ \/ /\ request[c].op = "resize"
        /\ request[c].arg >= content.count
        /\ content' = [content EXCEPT !.max = request[c].arg]
        /\ Answers(c, "ok")
     \/ /\ request[c].op = "resize"
        /\ Answers(c, "error")
        /\ UNCHANGED content
     \/ /\ request[c].op = "setef"
        /\ Answers(c, "ok")
        /\ UNCHANGED content
  /\ committed' = content'
  /\ UNCHANGED <<mu, life, request, done>>

(* Free, first C.freeHNSW ... *)
FreeMemory(c) ==
  /\ pc[c] = "C"
  /\ request[c].op = "free"
  /\ memory' = "freed"
  /\ frees' = frees + 1
  /\ Goto(c, "freed")
  /\ UNCHANGED <<mu, data, index, finalizer, reachable, request, done, answer>>

(* Bug: the pointer is kept. *)
ForgetPointerKeepsIndex(c) ==
  /\ pc[c] = "freed"
  /\ finalizer' = FALSE
  /\ Answers(c, "ok")
  /\ UNCHANGED <<mu, data, index, memory, frees, reachable, request, done>>

(* ... then idx.index = nil and runtime.SetFinalizer(idx, nil). *)
ForgetPointer(c) ==
  /\ pc[c] = "freed"
  /\ index' = FALSE
  /\ finalizer' = FALSE
  /\ Answers(c, "ok")
  /\ UNCHANGED <<mu, data, memory, frees, reachable, request, done>>

-----------------------------------------------------------------------------
(* The garbage collector: external.                                        *)

(* The last reference goes; a method in progress still holds one. *)
Drop ==
  /\ reachable
  /\ \A g \in Goroutine : pc[g] = "idle"
  /\ reachable' = FALSE
  /\ UNCHANGED <<mu, data, index, memory, frees, finalizer, pc, request, done, answer>>

(* The runtime takes the finalizer off the handle and calls Free. *)
RunFinalizer ==
  /\ ~reachable
  /\ finalizer
  /\ pc[Finalizer] = "idle"
  /\ finalizer' = FALSE
  /\ request' = [request EXCEPT ![Finalizer] = [op |-> "free", arg |-> 0]]
  /\ Goto(Finalizer, "lock")
  /\ UNCHANGED <<mu, data, index, memory, frees, reachable, done, answer>>

(* No one has the handle and its finalizer has run, or was never needed. *)
Collected ==
  /\ ~reachable
  /\ ~finalizer
  /\ pc[Finalizer] = "idle"
  /\ UNCHANGED vars

-----------------------------------------------------------------------------

Step(c) ==
  \/ Drained(c)
  \/ Unlock(c)
  \/ CheckClosed(c)
  \/ ReadFirst(c)
  \/ ReadSecond(c)
  \/ AddRow(c)
  \/ AddEnds(c)
  \/ MarkOrUnmark(c)
  \/ ResizeOrSetEf(c)
  \/ FreeMemory(c)
  \/ ForgetPointer(c)

Next ==
  \/ \E g \in Goroutine, r \in Requests : reachable /\ CallMethod(g, r)
  \/ \E c \in Caller : Lock(c) \/ Step(c)
  \/ Drop
  \/ RunFinalizer
  \/ Collected

Spec == Init /\ [][Next]_vars

(* The scheduler runs every goroutine and C++ calls end.  sync.Mutex hands *)
(* itself to a waiter that waited too long, hence SF for the writers.      *)
FairSpec ==
  /\ Spec
  /\ \A g \in Goroutine : WF_vars(Step(g)) /\ SF_vars(Lock(g))

-----------------------------------------------------------------------------

(* A call is answered when its method unlocks. *)
Phases ==
  [c \in Caller |-> IF pc[c] = "idle" THEN "idle"
                    ELSE IF pc[c] = "unlock" THEN "answered" ELSE "called"]

Given == [c \in Caller |-> IF pc[c] = "unlock" THEN answer[c] ELSE NoAnswer]

Promise == INSTANCE AtomicIndex WITH
  open <- index, content <- committed, phase <- Phases, answer <- Given

InC(c) == pc[c] \in {"C", "reading"}

(* Everything has its type; a caller holds the lock its place needs.       *)
TypeOK ==
  /\ writer \subseteq Caller /\ readers \subseteq Caller /\ parked \subseteq Caller
  /\ index \in BOOLEAN /\ memory \in {"live", "freed"} /\ frees \in Nat
  /\ content \in Promise!Content /\ committed \in Promise!Content
  /\ finalizer \in BOOLEAN /\ reachable \in BOOLEAN
  /\ pc \in [Caller -> {"idle", "parked", "lock", "drain", "locked", "C",
                        "reading", "freed", "unlock"}]
  /\ request \in [Caller -> Requests \union {NoCall}]
  /\ done \in [Caller -> Nat]

(* No C function runs on, or is about to be passed, a freed index: the     *)
(* closed check cannot go stale before the call it protects, and the index *)
(* is freed once.                                                          *)
NoUseAfterFree ==
  /\ \A c \in Caller : InC(c) => memory = "live"
  /\ frees <= 1

(* A handle no one can reach any more and whose finalizer is gone has been *)
(* freed, by Free or by the finalizer: no index is leaked.                 *)
NeverLeaked ==
  ~reachable /\ ~finalizer /\ pc[Finalizer] = "idle" => memory = "freed"

(* Goroutines sharing a handle see every call happen at one instant: a     *)
(* search's topK guard and its search, the parts of a saved file and the   *)
(* rows of a batch are never separated by another call.                    *)
ImplementsAtomicIndex == Promise!Spec

(* Every call returns: readers do not hold out a writer for ever, nor      *)
(* writers a reader, and no early return keeps the lock.                   *)
CallsReturn == \A g \in Goroutine : pc[g] # "idle" ~> pc[g] = "idle"

=============================================================================
