--------------------------- MODULE HnswIndexProofs ---------------------------
(***************************************************************************)
(* Proofs about HnswIndex, for any number of goroutines, any capacities    *)
(* and arguments: no C call meets a freed index, no index is leaked, and   *)
(* the handle implements AtomicIndex.                                      *)
(***************************************************************************)
EXTENDS HnswIndex, TLAPS

(* Where a caller is when it holds a lock. *)
Inside == {"locked", "C", "reading", "freed", "unlock"}

Types ==
  /\ index \in BOOLEAN
  /\ memory \in {"live", "freed"}
  /\ frees \in Nat
  /\ content \in Promise!Content
  /\ committed \in Promise!Content
  /\ finalizer \in BOOLEAN
  /\ reachable \in BOOLEAN
  /\ pc \in [Caller -> {"idle", "parked", "lock", "drain"} \union Inside]
  /\ request \in [Caller -> Requests \union {NoCall}]
  /\ done \in [Caller -> Nat]
  /\ answer \in [Caller -> [result : {"none", "ok", "error", "closed"},
                            saw : SUBSET Promise!Content]]

(* The lock a caller has is the one its method asked for. *)
Locks ==
  /\ writer \subseteq Caller
  /\ readers \subseteq Caller
  /\ parked \subseteq Caller
  /\ \A c \in Caller :
       /\ c \in readers <=> pc[c] \in Inside /\ request[c].op \in ReadOps
       /\ c \in parked <=> pc[c] = "parked"
       /\ c \in writer <=> pc[c] \in Inside \union {"drain"} /\ request[c].op \in WriteOps
       /\ pc[c] # "idle" => request[c] \in Requests
       /\ pc[c] = "parked" => request[c].op \in ReadOps
       /\ pc[c] \in {"lock", "drain"} => request[c].op \in WriteOps
       /\ pc[c] = "reading" => request[c].op \in ReadOps
       /\ pc[c] = "freed" => request[c].op = "free"

(* One writer, and no reader beside it. *)
Exclusion ==
  /\ \A c, d \in writer : c = d
  /\ \A c \in writer : pc[c] \in Inside => readers = {}

(* The pointer is set while the memory is live, except inside Free.        *)
Pointer ==
  /\ memory = "live" <=> frees = 0
  /\ frees <= 1
  /\ ~index => memory = "freed"
  /\ index /\ memory = "freed" => \E c \in Caller : pc[c] = "freed"
  /\ \A c \in Caller : pc[c] \in {"C", "reading", "freed"} => index
  /\ \A c \in Caller : pc[c] \in {"C", "reading"} => memory = "live"
  /\ \A c \in Caller : pc[c] = "freed" => memory = "freed"
  /\ \A c \in Caller : pc[c] = "unlock" /\ request[c].op = "free" => ~index

(* What n rows of a batch make of contents x: they added elements, took    *)
(* marks away, or met an element that was not marked.                      *)
After(x, n, y) ==
  LET added == y.count - x.count
      unmarked == x.marked - y.marked
  IN  /\ y.max = x.max
      /\ added >= 0 /\ unmarked >= 0 /\ added + unmarked <= n
      /\ added + unmarked < n => y.marked < y.count

(* Only a batch in progress separates the contents from the last committed *)
(* ones, by what its rows did.                                             *)
Rows ==
  /\ (\A c \in Caller : ~(pc[c] = "C" /\ request[c].op = "add")) => content = committed
  /\ \A c \in Caller :
       pc[c] = "C" /\ request[c].op = "add" =>
         /\ done[c] <= request[c].arg
         /\ After(committed, done[c], content)
  /\ \A c \in Caller : ~(pc[c] = "C" /\ request[c].op = "add") => done[c] = 0

(* What a call has seen is what there is. *)
Answered ==
  \A c \in Caller :
    /\ pc[c] = "reading" => answer[c].saw = {committed}
    /\ pc[c] \notin {"reading", "unlock"} => answer[c] = NoAnswer

(* The finalizer runs alone, after the last reference is gone. *)
Ending ==
  /\ \A g \in Goroutine : ~reachable => pc[g] = "idle"
  /\ pc[Finalizer] # "idle" => ~reachable /\ ~finalizer /\ request[Finalizer].op = "free"
  /\ memory = "live" => finalizer \/ pc[Finalizer] # "idle"

IndInv ==
  Types /\ Locks /\ Exclusion /\ Pointer /\ Rows /\ Answered /\ Ending

-----------------------------------------------------------------------------

(* What a call that is on its way may ask for. *)
LEMMA RequestFacts ==
  ASSUME IndInv, NEW c \in Caller, pc[c] # "idle"
  PROVE  /\ request[c].op \in ReadOps \union WriteOps
         /\ request[c].arg \in Nat
         /\ request[c].op = "resize" => request[c].arg \in Sizes
<1>1. request[c] \in Requests
  BY DEF IndInv, Locks
<1>2. \A r \in [op : {"search", "add"}, arg : Arg] :
        r.op \in {"search", "add"} /\ r.arg \in Nat
  BY ConstantsAssumption
<1>3. \A r \in [op : {"resize"}, arg : Sizes] :
        r.op = "resize" /\ r.arg \in Nat /\ r.arg \in Sizes
  BY ConstantsAssumption
<1>4. \A r \in [op : {"read", "mark", "unmark", "setef", "free"}, arg : {0}] :
        r.op \in {"read", "mark", "unmark", "setef", "free"} /\ r.arg \in Nat
  OBVIOUS
<1> QED
  BY <1>1, <1>2, <1>3, <1>4 DEF Requests, ReadOps, WriteOps

(* A writer inside is alone inside; beside a reader there is no writer.    *)
LEMMA Alone ==
  ASSUME IndInv, NEW c \in Caller, pc[c] \in Inside, request[c].op \in WriteOps
  PROVE  \A d \in Caller : d # c => pc[d] \notin Inside \union {"drain"}
<1> SUFFICES ASSUME NEW d \in Caller, d # c, pc[d] \in Inside \union {"drain"}
             PROVE  FALSE
  OBVIOUS
<1>1. c \in writer /\ readers = {}
  BY DEF IndInv, Locks, Exclusion
<1>2. d \notin writer
  BY <1>1 DEF IndInv, Exclusion
<1>3. request[d].op \in ReadOps /\ pc[d] # "drain"
  BY <1>2, RequestFacts DEF IndInv, Locks, Inside
<1> QED
  BY <1>1, <1>3 DEF IndInv, Locks

LEMMA ReaderSeesCommitted ==
  ASSUME IndInv, NEW c \in Caller, pc[c] \in Inside, request[c].op \in ReadOps
  PROVE  content = committed
<1>1. c \in readers
  BY DEF IndInv, Locks
<1>2. \A d \in Caller : ~(pc[d] = "C" /\ request[d].op = "add")
  BY <1>1 DEF IndInv, Locks, Exclusion, Inside, WriteOps
<1> QED
  BY <1>2 DEF IndInv, Rows

(* The parts of a content.                                                 *)
LEMMA ContentFacts ==
  \A z \in Promise!Content :
    /\ z = [count |-> z.count, marked |-> z.marked, max |-> z.max]
    /\ z.count \in Nat /\ z.marked \in Nat /\ z.max \in Sizes /\ z.max \in Nat
    /\ z.marked <= z.count /\ z.count <= z.max
<1> SUFFICES ASSUME NEW z \in Promise!Content
             PROVE  /\ z = [count |-> z.count, marked |-> z.marked, max |-> z.max]
                    /\ z.count \in Nat /\ z.marked \in Nat /\ z.max \in Sizes /\ z.max \in Nat
                    /\ z.marked <= z.count /\ z.count <= z.max
  OBVIOUS
<1>1. /\ z \in [count : Nat, marked : Nat, max : Sizes]
      /\ z.marked <= z.count /\ z.count <= z.max
  BY DEF Promise!Content
<1>2. z.max \in Nat
  BY <1>1, ConstantsAssumption
<1> QED
  BY <1>1, <1>2

LEMMA InitInv == Init => IndInv
<1> SUFFICES ASSUME Init PROVE IndInv
  OBVIOUS
<1> USE ConstantsAssumption DEF Init, Created
<1>1. content \in Promise!Content
  <2>1. PICK m \in Sizes : content = [count |-> 0, marked |-> 0, max |-> m]
    OBVIOUS
  <2> QED
    BY <2>1 DEF Promise!Content
<1>2. /\ request \in [Caller -> Requests \union {NoCall}]
      /\ \A c \in Caller : request[c].op \notin ReadOps \union WriteOps
  BY DEF NoCall, ReadOps, WriteOps
<1>3. Types
  BY <1>1, <1>2 DEF Types, NoAnswer, Inside
<1>4. Locks
  BY <1>2 DEF Locks, Inside
<1>5. Exclusion /\ Pointer /\ Rows /\ Answered /\ Ending
  BY DEF Exclusion, Pointer, Rows, Answered, Ending, Caller
<1> QED
  BY <1>3, <1>4, <1>5 DEF IndInv

LEMMA LockInv ==
  ASSUME IndInv, NEW c \in Caller, Lock(c)
  PROVE  IndInv'
<1> USE DEF Lock, Goto, Answers, mu, data, life
<1>1. Types'
  BY DEF IndInv, Types, Inside
<1>2. Locks'
  BY DEF IndInv, Types, Locks, Inside, ReadOps, WriteOps
<1>3. Exclusion'
  BY DEF IndInv, Types, Locks, Exclusion, Inside
<1>4. Pointer'
  BY DEF IndInv, Types, Pointer, Inside
<1>5. Rows'
  BY DEF IndInv, Types, Rows, Inside
<1>6. Answered'
  BY DEF IndInv, Types, Answered, Inside
<1>7. Ending'
  BY ConstantsAssumption DEF IndInv, Types, Ending, Inside, Caller
<1> QED
  BY <1>1, <1>2, <1>3, <1>4, <1>5, <1>6, <1>7 DEF IndInv

LEMMA DrainedInv ==
  ASSUME IndInv, NEW c \in Caller, Drained(c)
  PROVE  IndInv'
<1> USE DEF Drained, Goto, Answers, mu, data, life
<1>1. Types'
  BY DEF IndInv, Types, Inside
<1>2. Locks'
  BY DEF IndInv, Types, Locks, Inside, ReadOps, WriteOps
<1>3. Exclusion'
  BY DEF IndInv, Types, Locks, Exclusion, Inside
<1>4. Pointer'
  BY DEF IndInv, Types, Pointer, Inside
<1>5. Rows'
  BY DEF IndInv, Types, Rows, Inside
<1>6. Answered'
  BY DEF IndInv, Types, Answered, Inside
<1>7. Ending'
  BY ConstantsAssumption DEF IndInv, Types, Ending, Inside, Caller
<1> QED
  BY <1>1, <1>2, <1>3, <1>4, <1>5, <1>6, <1>7 DEF IndInv

LEMMA UnlockInv ==
  ASSUME IndInv, NEW c \in Caller, Unlock(c)
  PROVE  IndInv'
<1> USE DEF Goto, mu, data, life
<1>1. /\ pc[c] = "unlock"
      /\ answer' = [answer EXCEPT ![c] = NoAnswer]
      /\ request' = [request EXCEPT ![c] = NoCall]
      /\ UNCHANGED <<data, life, done>>
  BY DEF Unlock
<1>2. NoAnswer \in [result : {"none", "ok", "error", "closed"}, saw : SUBSET Promise!Content]
  BY DEF NoAnswer
<1>3. \A b \in Caller : answer'[b] = IF b = c THEN NoAnswer ELSE answer[b]
  BY <1>1 DEF IndInv, Types
<1>4. CASE c \in readers
  <2>1. /\ readers' = readers \ {c}
        /\ pc' = [pc EXCEPT ![c] = "idle"]
        /\ UNCHANGED <<writer, parked>>
    BY <1>4 DEF Unlock
  <2>2. request[c].op \in ReadOps
    BY <1>4 DEF IndInv, Locks
  <2>3. Types'
    BY <1>1, <1>2, <2>1 DEF IndInv, Types, Inside
  <2>4. Locks' /\ Exclusion'
    BY <1>1, <1>4, <2>1 DEF IndInv, Types, Locks, Exclusion, Inside, ReadOps, WriteOps
  <2>5. Pointer' /\ Rows'
    BY <1>1, <2>1 DEF IndInv, Types, Pointer, Rows
  <2>6. Answered'
    BY <1>1, <1>3, <2>1 DEF IndInv, Types, Answered
  <2>7. Ending'
    BY <1>1, <2>1, <2>2, ConstantsAssumption DEF IndInv, Types, Ending, ReadOps, Caller
  <2> QED
    BY <2>3, <2>4, <2>5, <2>6, <2>7 DEF IndInv
<1>5. CASE c \notin readers
  <2>1. /\ writer' = writer \ {c}
        /\ readers' = readers \union parked
        /\ parked' = {}
        /\ pc' = [b \in Caller |-> IF b = c THEN "idle"
                                   ELSE IF b \in parked THEN "locked" ELSE pc[b]]
    BY <1>5 DEF Unlock
  <2>2. \A b \in Caller : pc'[b] = IF b = c THEN "idle"
                                   ELSE IF pc[b] = "parked" THEN "locked" ELSE pc[b]
    BY <2>1 DEF IndInv, Locks
  <2>3. request[c].op \in WriteOps /\ c \in writer
    BY <1>1, <1>5, RequestFacts DEF IndInv, Locks, Inside
  <2>4. Types'
    BY <1>1, <1>2, <2>1 DEF IndInv, Types, Inside
  <2>5. Locks'
    BY <1>1, <2>1, <2>2, <2>3 DEF IndInv, Types, Locks, Inside, ReadOps, WriteOps
  <2>6. Exclusion'
    BY <2>1, <2>3 DEF IndInv, Exclusion
  <2>7. Pointer'
    BY <1>1, <2>2 DEF IndInv, Pointer
  <2>8. Rows'
    BY <1>1, <2>2 DEF IndInv, Rows
  <2>9. Answered'
    BY <1>1, <1>3, <2>2 DEF IndInv, Answered
  <2>10. Ending'
    <3>1. Finalizer \in Caller /\ \A g \in Goroutine : g \in Caller
      BY DEF Caller
    <3>2. memory' = "live" => c # Finalizer
      BY <1>1 DEF IndInv, Ending, Pointer
    <3> QED
      BY <1>1, <2>2, <3>1, <3>2 DEF IndInv, Ending
  <2> QED
    BY <2>4, <2>5, <2>6, <2>7, <2>8, <2>9, <2>10 DEF IndInv
<1> QED
  BY <1>4, <1>5

LEMMA CheckClosedInv ==
  ASSUME IndInv, NEW c \in Caller, CheckClosed(c)
  PROVE  IndInv'
<1> USE DEF CheckClosed, Goto, Answers, mu, data, life
<1>1. Types'
  BY DEF IndInv, Types, Inside
<1>2. Locks' /\ Exclusion'
  BY DEF IndInv, Types, Locks, Exclusion, Inside, ReadOps, WriteOps
<1>3. Pointer'
  <2>1. \A d \in Caller : pc[d] = "freed" => d = c
    <3> SUFFICES ASSUME NEW d \in Caller, pc[d] = "freed", d # c
                 PROVE  FALSE
      OBVIOUS
    <3>1. request[d].op \in WriteOps
      BY DEF IndInv, Locks, WriteOps
    <3> QED
      BY <3>1, Alone DEF Inside
  <2>2. index => memory = "live"
    BY <2>1 DEF IndInv, Types, Pointer
  <2> QED
    BY <2>1, <2>2 DEF IndInv, Types, Pointer
<1>4. Rows'
  <2>1. CASE index /\ request[c].op = "add"
    <3>1. \A d \in Caller : ~(pc[d] = "C" /\ request[d].op = "add")
      BY <2>1, Alone DEF Inside, WriteOps
    <3>2. content = committed /\ done[c] = 0
      BY <3>1 DEF IndInv, Rows
    <3>3. request[c].arg \in Nat
      BY RequestFacts
    <3>4. After(committed, 0, committed)
      BY ContentFacts DEF IndInv, Types, After
    <3> QED
      BY <2>1, <3>1, <3>2, <3>3, <3>4 DEF IndInv, Types, Rows
  <2>2. CASE ~(index /\ request[c].op = "add")
    BY <2>2 DEF IndInv, Types, Rows
  <2> QED
    BY <2>1, <2>2
<1>5. Answered'
  BY DEF IndInv, Types, Answered, Inside
<1>6. Ending'
  BY ConstantsAssumption DEF IndInv, Types, Ending, Inside, Caller
<1> QED
  BY <1>1, <1>2, <1>3, <1>4, <1>5, <1>6 DEF IndInv

LEMMA ReadFirstInv ==
  ASSUME IndInv, NEW c \in Caller, ReadFirst(c)
  PROVE  IndInv'
<1> USE DEF Goto, mu, data, life
<1>1. /\ pc[c] = "C" /\ request[c].op \in ReadOps
      /\ UNCHANGED <<mu, data, life, request, done>>
  BY DEF ReadFirst
<1>2. content = committed
  BY <1>1, ReaderSeesCommitted DEF Inside
<1>3. PICK result \in {"error", "none"}, place \in {"unlock", "reading"} :
        /\ answer' = [answer EXCEPT ![c] = [result |-> result, saw |-> {content}]]
        /\ pc' = [pc EXCEPT ![c] = place]
  BY DEF ReadFirst
<1>4. Types'
  <2>1. {content} \in SUBSET Promise!Content
    BY DEF IndInv, Types
  <2> QED
    BY <1>1, <1>3, <2>1 DEF IndInv, Types, Inside
<1>5. Locks' /\ Exclusion'
  BY <1>1, <1>3 DEF IndInv, Types, Locks, Exclusion, Inside, ReadOps, WriteOps
<1>6. Pointer' /\ Rows'
  BY <1>1, <1>3 DEF IndInv, Types, Pointer, Rows, ReadOps
<1>7. Answered'
  <2>1. answer'[c].saw = {committed}
    BY <1>2, <1>3 DEF IndInv, Types
  <2>2. \A d \in Caller : d # c => answer'[d] = answer[d] /\ pc'[d] = pc[d]
    BY <1>3 DEF IndInv, Types
  <2>3. pc'[c] \in {"reading", "unlock"}
    BY <1>3 DEF IndInv, Types
  <2> QED
    BY <1>1, <2>1, <2>2, <2>3 DEF IndInv, Answered
<1>8. Ending'
  BY <1>1, <1>3, ConstantsAssumption DEF IndInv, Types, Ending, Inside, Caller, ReadOps
<1> QED
  BY <1>4, <1>5, <1>6, <1>7, <1>8 DEF IndInv

LEMMA ReadSecondInv ==
  ASSUME IndInv, NEW c \in Caller, ReadSecond(c)
  PROVE  IndInv'
<1> USE DEF ReadSecond, Goto, Answers, mu, data, life
<1>1. Types'
  BY DEF IndInv, Types, Inside
<1>2. Locks'
  BY DEF IndInv, Types, Locks, Inside, ReadOps, WriteOps
<1>3. Exclusion'
  BY DEF IndInv, Types, Locks, Exclusion, Inside
<1>4. Pointer'
  BY DEF IndInv, Types, Locks, Pointer, ReadOps
<1>5. Rows'
  BY DEF IndInv, Types, Rows, Inside
<1>6. Answered'
  BY DEF IndInv, Types, Answered, Inside
<1>7. Ending'
  BY ConstantsAssumption DEF IndInv, Types, Ending, Inside, Caller
<1> QED
  BY <1>1, <1>2, <1>3, <1>4, <1>5, <1>6, <1>7 DEF IndInv

(* What one more row makes of the contents.                                *)
LEMMA OneMore ==
  ASSUME NEW x \in Promise!Content, NEW n \in Nat, NEW y \in Promise!Content, NEW z,
         After(x, n, y),
         \/ y.count < y.max    /\ z = [y EXCEPT !.count = @ + 1]
         \/ y.marked > 0       /\ z = [y EXCEPT !.marked = @ - 1]
         \/ y.marked < y.count /\ z = y
  PROVE  z \in Promise!Content /\ After(x, n + 1, z)
<1>1. /\ y = [count |-> y.count, marked |-> y.marked, max |-> y.max]
      /\ y.count \in Nat /\ y.marked \in Nat /\ y.max \in Sizes /\ y.max \in Nat
      /\ y.marked <= y.count /\ y.count <= y.max
      /\ x.count \in Nat /\ x.marked \in Nat
  BY ContentFacts
<1>2. \A a, b \in Nat : b <= a /\ a <= y.max =>
        [count |-> a, marked |-> b, max |-> y.max] \in Promise!Content
  BY <1>1 DEF Promise!Content
<1>3. PICK a \in Nat, b \in Nat :
        /\ z = [count |-> a, marked |-> b, max |-> y.max] /\ b <= a /\ a <= y.max
        /\ \/ a = y.count + 1 /\ b = y.marked
           \/ a = y.count /\ b = y.marked - 1
           \/ a = y.count /\ b = y.marked /\ y.marked < y.count
  <2>1. CASE y.count < y.max /\ z = [y EXCEPT !.count = @ + 1]
    <3>1. z = [count |-> y.count + 1, marked |-> y.marked, max |-> y.max]
      BY <1>1, <2>1
    <3>2. y.count + 1 \in Nat /\ y.marked <= y.count + 1 /\ y.count + 1 <= y.max
      BY <1>1, <2>1
    <3> QED
      BY <1>1, <3>1, <3>2
  <2>2. CASE y.marked > 0 /\ z = [y EXCEPT !.marked = @ - 1]
    <3>1. z = [count |-> y.count, marked |-> y.marked - 1, max |-> y.max]
      BY <1>1, <2>2
    <3>2. y.marked - 1 \in Nat /\ y.marked - 1 <= y.count
      BY <1>1, <2>2
    <3> QED
      BY <1>1, <3>1, <3>2
  <2>3. CASE y.marked < y.count /\ z = y
    BY <1>1, <2>3
  <2> QED
    BY <2>1, <2>2, <2>3
<1>4. z.count = a /\ z.marked = b /\ z.max = y.max
  BY <1>3
<1>5. After(x, n + 1, z)
  BY <1>1, <1>3, <1>4 DEF After
<1> QED
  BY <1>2, <1>3, <1>5

LEMMA AddRowInv ==
  ASSUME IndInv, NEW c \in Caller, AddRow(c)
  PROVE  IndInv'
<1> USE DEF Goto, Answers, mu, data, life
<1>1. /\ pc[c] = "C" /\ request[c].op = "add" /\ done[c] < request[c].arg
      /\ done' = [done EXCEPT ![c] = @ + 1]
      /\ UNCHANGED <<mu, life, request, committed, pc, answer>>
  BY DEF AddRow
<1>2. \A d \in Caller : d # c => pc[d] \notin Inside \union {"drain"}
  BY <1>1, Alone DEF Inside, WriteOps
<1>3. /\ content \in Promise!Content /\ committed \in Promise!Content
      /\ done[c] \in Nat /\ After(committed, done[c], content)
      /\ request[c].arg \in Nat
  BY <1>1, RequestFacts DEF IndInv, Types, Rows
<1>4. content' \in Promise!Content /\ After(committed, done[c] + 1, content')
  <2>1. \/ content.count < content.max    /\ content' = [content EXCEPT !.count = @ + 1]
        \/ content.marked > 0             /\ content' = [content EXCEPT !.marked = @ - 1]
        \/ content.marked < content.count /\ content' = content
    BY DEF AddRow
  <2> QED
    BY <1>3, <2>1, OneMore
<1>5. /\ done' \in [Caller -> Nat]
      /\ \A d \in Caller : done'[d] = IF d = c THEN done[c] + 1 ELSE done[d]
  BY <1>1, <1>3 DEF IndInv, Types
<1>6. Types'
  BY <1>1, <1>4, <1>5 DEF IndInv, Types
<1>7. Locks' /\ Exclusion' /\ Pointer' /\ Answered' /\ Ending'
  BY <1>1 DEF IndInv, Locks, Exclusion, Pointer, Answered, Ending
<1>8. Rows'
  <2>1. \A d \in Caller : pc[d] = "C" => d = c
    BY <1>2 DEF Inside
  <2>2. done[c] + 1 <= request[c].arg
    BY <1>1, <1>3
  <2>3. \A d \in Caller : ~(pc'[d] = "C" /\ request'[d].op = "add") => done'[d] = 0
    BY <1>1, <1>5 DEF IndInv, Rows
  <2>4. \A d \in Caller : pc'[d] = "C" /\ request'[d].op = "add" =>
          done'[d] <= request'[d].arg /\ After(committed', done'[d], content')
    BY <1>1, <1>4, <1>5, <2>1, <2>2
  <2> QED
    BY <1>1, <2>3, <2>4 DEF Rows
<1> QED
  BY <1>6, <1>7, <1>8 DEF IndInv

LEMMA AddEndsInv ==
  ASSUME IndInv, NEW c \in Caller, AddEnds(c)
  PROVE  IndInv'
<1> USE DEF Goto, Answers, mu, data, life
<1>1. PICK result \in {"ok", "error"} :
        /\ pc[c] = "C" /\ request[c].op = "add" /\ Answers(c, result)
        /\ committed' = content /\ done' = [done EXCEPT ![c] = 0]
        /\ UNCHANGED <<mu, life, request, content>>
  BY DEF AddEnds
<1>2. \A d \in Caller : d # c => pc[d] \notin Inside \union {"drain"}
  BY <1>1, Alone DEF Inside, WriteOps
<1>3. c # Finalizer
  BY <1>1 DEF IndInv, Ending
<1>4. Types'
  BY <1>1 DEF IndInv, Types, Inside
<1>5. Locks' /\ Exclusion'
  BY <1>1 DEF IndInv, Types, Locks, Exclusion, Inside, ReadOps, WriteOps
<1>6. Pointer'
  BY <1>1 DEF IndInv, Types, Pointer
<1>7. Rows'
  BY <1>1, <1>2 DEF IndInv, Types, Rows, Inside
<1>8. Answered'
  BY <1>1, <1>2 DEF IndInv, Types, Answered, Inside
<1>9. Ending'
  BY <1>1, <1>3, ConstantsAssumption DEF IndInv, Types, Ending, Caller
<1> QED
  BY <1>4, <1>5, <1>6, <1>7, <1>8, <1>9 DEF IndInv

(* A write that takes effect in one step. *)
LEMMA WriteInv ==
  ASSUME IndInv, NEW c \in Caller, MarkOrUnmark(c) \/ ResizeOrSetEf(c)
  PROVE  IndInv'
<1> USE DEF Goto, mu, data, life
<1>1. /\ pc[c] = "C" /\ request[c].op \in {"mark", "unmark", "resize", "setef"}
      /\ committed' = content'
      /\ UNCHANGED <<mu, life, request, done>>
  BY DEF MarkOrUnmark, ResizeOrSetEf
<1>2. \A d \in Caller : d # c => pc[d] \notin Inside \union {"drain"}
  BY <1>1, Alone DEF Inside, WriteOps
<1>3. content' \in Promise!Content
  <2>1. CASE MarkOrUnmark(c)
    BY <2>1, ConstantsAssumption DEF IndInv, Types, MarkOrUnmark, Promise!Content
  <2>2. CASE ResizeOrSetEf(c)
    <3>1. request[c].op = "resize" => request[c].arg \in Sizes
      BY <1>1, RequestFacts
    <3> QED
      BY <2>2, <3>1, ConstantsAssumption DEF IndInv, Types, ResizeOrSetEf, Promise!Content
  <2> QED
    BY <2>1, <2>2
<1>4. PICK result \in {"ok", "error"} :
        /\ pc' = [pc EXCEPT ![c] = "unlock"]
        /\ answer' = [answer EXCEPT ![c] = [result |-> result, saw |-> @.saw]]
  BY DEF MarkOrUnmark, ResizeOrSetEf, Answers
<1>5. c # Finalizer
  BY <1>1 DEF IndInv, Ending
<1>6. Types'
  BY <1>1, <1>3, <1>4 DEF IndInv, Types, Inside
<1>7. Locks' /\ Exclusion'
  BY <1>1, <1>4 DEF IndInv, Types, Locks, Exclusion, Inside, ReadOps, WriteOps
<1>8. Pointer'
  BY <1>1, <1>4 DEF IndInv, Types, Pointer
<1>9. Rows'
  <2>1. \A d \in Caller : pc'[d] # "C"
    BY <1>2, <1>4 DEF IndInv, Types, Inside
  <2>2. \A d \in Caller : done[d] = 0
    BY <1>1, <1>2 DEF IndInv, Rows, Inside
  <2> QED
    BY <1>1, <2>1, <2>2 DEF Rows
<1>10. Answered'
  BY <1>1, <1>2, <1>4 DEF IndInv, Types, Answered, Inside
<1>11. Ending'
  BY <1>1, <1>4, <1>5, ConstantsAssumption DEF IndInv, Types, Ending, Caller
<1> QED
  BY <1>6, <1>7, <1>8, <1>9, <1>10, <1>11 DEF IndInv

LEMMA FreeMemoryInv ==
  ASSUME IndInv, NEW c \in Caller, FreeMemory(c)
  PROVE  IndInv'
<1> USE DEF FreeMemory, Goto, Answers, mu, data, life
<1>1. Types'
  BY DEF IndInv, Types, Inside
<1>2. Locks'
  BY DEF IndInv, Types, Locks, Inside, ReadOps, WriteOps
<1>3. Exclusion'
  BY DEF IndInv, Types, Locks, Exclusion, Inside
<1>4. Pointer'
  <2>1. \A d \in Caller : d # c => pc[d] \notin Inside
    BY Alone DEF Inside, WriteOps
  <2>2. frees = 0 /\ index
    BY DEF IndInv, Pointer
  <2>3. pc'[c] = "freed" /\ \A d \in Caller : d # c => pc'[d] = pc[d]
    BY DEF IndInv, Types
  <2> QED
    BY <2>1, <2>2, <2>3 DEF Pointer, Inside
<1>5. Rows'
  BY DEF IndInv, Types, Rows, Inside
<1>6. Answered'
  BY DEF IndInv, Types, Answered, Inside
<1>7. Ending'
  BY ConstantsAssumption DEF IndInv, Types, Ending, Inside, Caller
<1> QED
  BY <1>1, <1>2, <1>3, <1>4, <1>5, <1>6, <1>7 DEF IndInv

LEMMA ForgetPointerInv ==
  ASSUME IndInv, NEW c \in Caller, ForgetPointer(c)
  PROVE  IndInv'
<1> USE DEF ForgetPointer, Goto, Answers, mu, data, life
<1>1. Types'
  BY DEF IndInv, Types, Inside
<1>2. Locks'
  BY DEF IndInv, Types, Locks, Inside, ReadOps, WriteOps
<1>3. Exclusion'
  BY DEF IndInv, Types, Locks, Exclusion, Inside
<1>4. Pointer'
  <2>1. \A d \in Caller : d # c => pc[d] \notin Inside
    BY Alone DEF Inside, WriteOps, IndInv, Locks
  <2>2. memory = "freed" /\ frees \in Nat
    BY DEF IndInv, Pointer, Types
  <2>3. pc'[c] = "unlock" /\ \A d \in Caller : d # c => pc'[d] = pc[d]
    BY DEF IndInv, Types
  <2> QED
    BY <2>1, <2>2, <2>3 DEF IndInv, Pointer, Inside
<1>5. Rows'
  BY DEF IndInv, Types, Rows, Inside
<1>6. Answered'
  BY DEF IndInv, Types, Answered, Inside
<1>7. Ending'
  <2>1. memory = "freed" /\ request[c].op = "free"
    BY DEF IndInv, Pointer, Locks
  <2>2. pc'[c] = "unlock" /\ \A d \in Caller : d # c => pc'[d] = pc[d]
    BY DEF IndInv, Types
  <2>3. \A g \in Goroutine : g \in Caller
    BY DEF Caller
  <2> QED
    BY <2>1, <2>2, <2>3 DEF IndInv, Ending
<1> QED
  BY <1>1, <1>2, <1>3, <1>4, <1>5, <1>6, <1>7 DEF IndInv

LEMMA CallMethodInv ==
  ASSUME IndInv, NEW g \in Goroutine, NEW r \in Requests, reachable, CallMethod(g, r)
  PROVE  IndInv'
<1> USE DEF CallMethod, RLock, Goto, mu, data, life
<1>1. g \in Caller /\ g # Finalizer
  BY ConstantsAssumption DEF Caller
<1>2. PICK place \in {"locked", "parked", "lock"} : pc' = [pc EXCEPT ![g] = place]
  OBVIOUS
<1>3. \A d \in Caller : /\ pc'[d] = IF d = g THEN place ELSE pc[d]
                       /\ request'[d] = IF d = g THEN r ELSE request[d]
  BY <1>1, <1>2 DEF IndInv, Types
<1>4. Types'
  BY <1>1, <1>2 DEF IndInv, Types, Inside
<1>5. Locks' /\ Exclusion'
  BY <1>1 DEF IndInv, Types, Locks, Exclusion, Inside, Requests, ReadOps, WriteOps
<1>6. Pointer'
  BY <1>3 DEF IndInv, Pointer
<1>7. Rows' /\ Answered'
  BY <1>1, <1>3 DEF IndInv, Types, Rows, Answered
<1>8. Ending'
  BY <1>1, <1>3 DEF IndInv, Ending, Caller
<1> QED
  BY <1>4, <1>5, <1>6, <1>7, <1>8 DEF IndInv

LEMMA RunFinalizerInv ==
  ASSUME IndInv, RunFinalizer
  PROVE  IndInv'
<1> USE DEF Goto, mu, data
<1>1. /\ ~reachable /\ pc[Finalizer] = "idle"
      /\ finalizer' = FALSE
      /\ request' = [request EXCEPT ![Finalizer] = [op |-> "free", arg |-> 0]]
      /\ pc' = [pc EXCEPT ![Finalizer] = "lock"]
      /\ UNCHANGED <<mu, data, index, memory, frees, reachable, done, answer>>
  BY DEF RunFinalizer
<1>2. Finalizer \in Caller /\ \A g \in Goroutine : g \in Caller /\ g # Finalizer
  BY ConstantsAssumption DEF Caller
<1>3. [op |-> "free", arg |-> 0] \in Requests
  BY DEF Requests
<1>4. Types'
  BY <1>1, <1>2, <1>3 DEF IndInv, Types, Inside
<1>5. Locks' /\ Exclusion'
  BY <1>1, <1>2, <1>3 DEF IndInv, Types, Locks, Exclusion, Inside, ReadOps, WriteOps
<1>6. Pointer' /\ Rows' /\ Answered'
  BY <1>1, <1>2 DEF IndInv, Types, Pointer, Rows, Answered
<1>7. Ending'
  BY <1>1, <1>2 DEF IndInv, Types, Ending
<1> QED
  BY <1>4, <1>5, <1>6, <1>7 DEF IndInv

LEMMA NextInv == IndInv /\ [Next]_vars => IndInv'
<1> SUFFICES ASSUME IndInv, [Next]_vars PROVE IndInv'
  OBVIOUS
<1>1. CASE \E g \in Goroutine, r \in Requests : reachable /\ CallMethod(g, r)
  BY <1>1, CallMethodInv
<1>2. CASE \E c \in Caller : Lock(c) \/ Step(c)
  BY <1>2, LockInv, DrainedInv, UnlockInv, CheckClosedInv, ReadFirstInv,
     ReadSecondInv, AddRowInv, AddEndsInv, WriteInv, FreeMemoryInv, ForgetPointerInv DEF Step
<1>3. CASE Drop
  <2>1. /\ \A g \in Goroutine : pc[g] = "idle"
        /\ reachable' = FALSE
        /\ UNCHANGED <<mu, data, index, memory, frees, finalizer, pc, request, done, answer>>
    BY <1>3 DEF Drop
  <2>2. Types' /\ Locks' /\ Exclusion' /\ Pointer' /\ Rows' /\ Answered'
    BY <2>1 DEF mu, data, IndInv, Types, Locks, Exclusion, Pointer, Rows, Answered
  <2>3. Ending'
    BY <2>1 DEF IndInv, Ending
  <2> QED
    BY <2>2, <2>3 DEF IndInv
<1>4. CASE RunFinalizer
  BY <1>4, RunFinalizerInv
<1>5. CASE Collected \/ UNCHANGED vars
  BY <1>5 DEF Collected, vars, IndInv, Types, Locks, Exclusion, Pointer, Rows, Answered, Ending
<1> QED
  BY <1>1, <1>2, <1>3, <1>4, <1>5 DEF Next

(* The locks, the pointer and the contents are consistent in every state.  *)
THEOREM HandleInvariant == Spec => []IndInv
BY InitInv, NextInv, PTL DEF Spec

(* For any number of goroutines, the lock, the pointer and the contents of *)
(* the handle are in range, and no more elements are marked than there are *)
(* (hnsw.go, Index).                                                       *)
THEOREM TypeCorrect == Spec => []TypeOK
<1>1. IndInv => TypeOK
  BY DEF IndInv, Types, Locks, Inside, TypeOK, Promise!Content
<1> QED
  BY <1>1, HandleInvariant, PTL

(* No C call runs on a freed index and the index is freed at most once,    *)
(* for any number of goroutines.                                           *)
THEOREM NoUseAfterFreeHolds == Spec => []NoUseAfterFree
<1>1. IndInv => NoUseAfterFree
  BY DEF IndInv, Pointer, NoUseAfterFree, InC
<1> QED
  BY <1>1, HandleInvariant, PTL

(* An index that no goroutine can reach and no finalizer will free has     *)
(* been freed.                                                             *)
THEOREM NeverLeakedHolds == Spec => []NeverLeaked
<1>1. IndInv => NeverLeaked
  BY DEF IndInv, Types, Ending, NeverLeaked
<1> QED
  BY <1>1, HandleInvariant, PTL

-----------------------------------------------------------------------------
(* HnswIndex implements AtomicIndex.                                       *)

(* A step that leaves every caller in its phase is not seen.               *)
LEMMA Unseen ==
  ASSUME IndInv, Phases' = Phases, UNCHANGED <<index, committed, request>>,
         \A c \in Caller : pc[c] = "unlock" => answer'[c] = answer[c]
  PROVE  UNCHANGED Promise!vars
<1>1. \A c \in Caller : pc'[c] = "unlock" <=> pc[c] = "unlock"
  BY DEF Phases
<1>2. Given' = Given
  BY <1>1 DEF Given
<1> QED
  BY <1>2 DEF Promise!vars

(* The step that answers a call. *)
LEMMA AnswersSeen ==
  ASSUME IndInv, NEW c \in Caller, pc[c] \notin {"idle", "unlock"}, NEW result, NEW saw,
         pc' = [pc EXCEPT ![c] = "unlock"], request' = request,
         answer' = [answer EXCEPT ![c] = [result |-> result, saw |-> saw]]
  PROVE  Promise!Answers(c, result, saw)
<1>1. \A d \in Caller : pc'[d] = IF d = c THEN "unlock" ELSE pc[d]
  BY DEF IndInv, Types
<1>2. \A d \in Caller : answer'[d] = IF d = c THEN [result |-> result, saw |-> saw] ELSE answer[d]
  BY DEF IndInv, Types
<1>3. Phases[c] = "called" /\ Phases' = [Phases EXCEPT ![c] = "answered"]
  <2>1. \A d \in Caller :
          Phases'[d] = IF d = c THEN "answered" ELSE Phases[d]
    BY <1>1 DEF Phases
  <2>2. Phases[c] = "called"
    BY DEF Phases
  <2> QED
    BY <2>1, <2>2 DEF Phases
<1>4. Given' = [Given EXCEPT ![c] = [result |-> result, saw |-> saw]]
  BY <1>1, <1>2 DEF Given
<1> QED
  BY <1>3, <1>4 DEF Promise!Answers

(* The steps between the start of a method and its answer. *)
LEMMA InProgressUnseen ==
  ASSUME IndInv, NEW c \in Caller, NEW place,
         pc[c] \notin {"idle", "unlock"}, place \notin {"idle", "unlock"},
         pc' = [pc EXCEPT ![c] = place], UNCHANGED <<index, committed, request>>,
         \A d \in Caller : d # c => answer'[d] = answer[d]
  PROVE  UNCHANGED Promise!vars
<1>1. \A d \in Caller : pc'[d] = IF d = c THEN place ELSE pc[d]
  BY DEF IndInv, Types
<1>2. Phases' = Phases
  BY <1>1 DEF Phases
<1> QED
  BY <1>2, Unseen

LEMMA LockStepUnseen ==
  ASSUME IndInv, NEW c \in Caller, Lock(c) \/ Drained(c) \/ FreeMemory(c)
  PROVE  UNCHANGED Promise!vars
<1> USE DEF Goto, mu, data, life
<1>1. CASE Lock(c)
  BY <1>1, InProgressUnseen DEF Lock
<1>2. CASE Drained(c)
  BY <1>2, InProgressUnseen DEF Drained
<1>3. CASE FreeMemory(c)
  BY <1>3, InProgressUnseen DEF FreeMemory
<1> QED
  BY <1>1, <1>2, <1>3

LEMMA CheckClosedStep ==
  ASSUME IndInv, NEW c \in Caller, CheckClosed(c)
  PROVE  Promise!Closed(c) \/ UNCHANGED Promise!vars
<1> USE DEF CheckClosed, Goto, mu, data, life
<1>1. CASE index
  BY <1>1, InProgressUnseen
<1>2. CASE ~index
  <2>1. answer[c].saw = {}
    BY DEF IndInv, Answered, NoAnswer
  <2>2. Promise!Answers(c, "closed", {})
    BY <1>2, <2>1, AnswersSeen DEF Answers
  <2> QED
    BY <1>2, <2>2 DEF Promise!Closed
<1> QED
  BY <1>1, <1>2

LEMMA ReadStep ==
  ASSUME IndInv, NEW c \in Caller, ReadFirst(c) \/ ReadSecond(c)
  PROVE  Promise!Read(c) \/ UNCHANGED Promise!vars
<1> USE DEF Goto, mu, data, life
<1>1. pc[c] \in {"C", "reading"} /\ request[c].op \in ReadOps
  BY DEF ReadFirst, ReadSecond, IndInv, Locks
<1>2. content = committed /\ index
  BY <1>1, ReaderSeesCommitted DEF Inside, IndInv, Pointer
<1>3. CASE ReadFirst(c)
  <2>1. CASE request[c].op = "search" /\ request[c].arg > content.count
    <3>1. Promise!Answers(c, "error", {committed})
      BY <1>1, <1>2, <1>3, <2>1, AnswersSeen DEF ReadFirst
    <3> QED
      BY <1>2, <1>3, <2>1, <3>1 DEF Promise!Read, ReadFirst
  <2>2. CASE ~(request[c].op = "search" /\ request[c].arg > content.count)
    <3>1. \A d \in Caller : d # c => answer'[d] = answer[d]
      BY <1>3 DEF ReadFirst, IndInv, Types
    <3>2. pc' = [pc EXCEPT ![c] = "reading"] /\ UNCHANGED <<index, committed, request>>
      BY <1>3, <2>2 DEF ReadFirst
    <3> QED
      BY <1>1, <3>1, <3>2, InProgressUnseen
  <2> QED
    BY <2>1, <2>2
<1>4. CASE ReadSecond(c)
  <2>1. PICK result \in {"ok", "error"} :
          /\ request[c].op = "search" /\ result = "ok" =>
               request[c].arg <= content.count - content.marked
          /\ answer' = [answer EXCEPT ![c] = [result |-> result, saw |-> @.saw \union {content}]]
    BY <1>4 DEF ReadSecond
  <2>2. answer[c].saw \union {content} = {committed}
    BY <1>2, <1>4 DEF ReadSecond, IndInv, Answered
  <2>3. answer' = [answer EXCEPT ![c] = [result |-> result, saw |-> {committed}]]
    BY <2>1, <2>2
  <2>4. Promise!Answers(c, result, {committed})
    BY <1>1, <1>4, <2>3, AnswersSeen DEF ReadSecond
  <2>5. UNCHANGED <<index, committed>>
    BY <1>4 DEF ReadSecond
  <2> QED
    BY <1>1, <1>2, <2>1, <2>4, <2>5 DEF Promise!Read, ReadOps
<1> QED
  BY <1>3, <1>4

LEMMA AddRowStep ==
  ASSUME IndInv, NEW c \in Caller, AddRow(c)
  PROVE  UNCHANGED Promise!vars
<1>1. UNCHANGED <<committed, pc, answer, request, index>>
  BY DEF AddRow, life
<1> QED
  BY <1>1, Unseen DEF Phases

LEMMA AddEndsStep ==
  ASSUME IndInv, NEW c \in Caller, AddEnds(c)
  PROVE  Promise!Add(c)
<1> USE DEF Goto, mu, data, life
<1>1. PICK result \in {"ok", "error"} :
        /\ pc[c] = "C" /\ request[c].op = "add"
        /\ result = "ok" => done[c] = request[c].arg
        /\ Answers(c, result) /\ committed' = content
        /\ UNCHANGED <<index, request>>
  BY DEF AddEnds
<1>2. index
  BY <1>1 DEF IndInv, Pointer
<1>3. /\ content \in Promise!Content /\ committed \in Promise!Content
      /\ done[c] \in Nat /\ done[c] <= request[c].arg /\ request[c].arg \in Nat
      /\ After(committed, done[c], content)
  BY <1>1, RequestFacts DEF IndInv, Types, Rows
<1> DEFINE added == content.count - committed.count
           unmarked == committed.marked - content.marked
<1>4. /\ content.count \in Nat /\ content.marked \in Nat
      /\ committed.count \in Nat /\ committed.marked \in Nat
      /\ content.max \in Nat /\ content.count <= content.max /\ content.max = committed.max
  BY <1>3, ContentFacts DEF After
<1>5. /\ added \in Nat /\ unmarked \in Nat /\ added + unmarked <= done[c]
      /\ added + unmarked < done[c] => content.marked < content.count
  BY <1>3, <1>4 DEF After
<1>6. added \in 0 .. request[c].arg /\ unmarked \in 0 .. request[c].arg
      /\ added + unmarked <= request[c].arg
  BY <1>3, <1>5
<1>7. committed.count + added <= committed.max /\ unmarked <= committed.marked
  BY <1>4
<1>8. content = [count |-> committed.count + added, marked |-> committed.marked - unmarked,
                 max |-> committed.max]
  <2>1. content = [count |-> content.count, marked |-> content.marked, max |-> content.max]
    BY <1>3, ContentFacts
  <2>2. committed.count + added = content.count /\ committed.marked - unmarked = content.marked
    BY <1>4
  <2> HIDE DEF added, unmarked
  <2> QED
    BY <1>4, <2>1, <2>2
<1>9. result = "ok" => added + unmarked = request[c].arg \/ content.marked < content.count
  BY <1>1, <1>3, <1>5
<1>10. Promise!Answers(c, result, {})
  <2>1. answer[c].saw = {}
    BY <1>1 DEF IndInv, Answered, NoAnswer
  <2> QED
    BY <1>1, <2>1, AnswersSeen DEF Answers
<1> HIDE DEF added, unmarked
<1> QED
  BY <1>1, <1>2, <1>6, <1>7, <1>8, <1>9, <1>10 DEF Promise!Add

LEMMA MarkStep ==
  ASSUME IndInv, NEW c \in Caller, MarkOrUnmark(c)
  PROVE  Promise!Mark(c)
<1> USE DEF Goto, mu, data, life
<1>1. /\ pc[c] = "C" /\ request[c].op \in {"mark", "unmark"} /\ index
      /\ UNCHANGED <<index, request>>
      /\ committed' = content'
  BY DEF MarkOrUnmark, IndInv, Pointer
<1>2. content = committed
  <2>1. \A d \in Caller : ~(pc[d] = "C" /\ request[d].op = "add")
    BY <1>1, Alone DEF Inside, WriteOps
  <2> QED
    BY <2>1 DEF IndInv, Rows
<1>3. answer[c].saw = {}
  BY <1>1 DEF IndInv, Answered, NoAnswer
<1>4. \A result : Answers(c, result) => Promise!Answers(c, result, {})
  BY <1>1, <1>3, AnswersSeen DEF Answers
<1> QED
  BY <1>1, <1>2, <1>4 DEF MarkOrUnmark, Promise!Mark

LEMMA TuneStep ==
  ASSUME IndInv, NEW c \in Caller, ResizeOrSetEf(c)
  PROVE  Promise!Tune(c)
<1> USE DEF Goto, mu, data, life
<1>1. /\ pc[c] = "C" /\ request[c].op \in {"resize", "setef"} /\ index
      /\ UNCHANGED <<index, request>>
      /\ committed' = content'
  BY DEF ResizeOrSetEf, IndInv, Pointer
<1>2. content = committed
  <2>1. \A d \in Caller : ~(pc[d] = "C" /\ request[d].op = "add")
    BY <1>1, Alone DEF Inside, WriteOps
  <2> QED
    BY <2>1 DEF IndInv, Rows
<1>3. answer[c].saw = {}
  BY <1>1 DEF IndInv, Answered, NoAnswer
<1>4. \A result : Answers(c, result) => Promise!Answers(c, result, {})
  BY <1>1, <1>3, AnswersSeen DEF Answers
<1> QED
  BY <1>1, <1>2, <1>4 DEF ResizeOrSetEf, Promise!Tune

LEMMA FreeStep ==
  ASSUME IndInv, NEW c \in Caller, ForgetPointer(c)
  PROVE  Promise!Free(c)
<1> USE DEF Goto, mu, data, life
<1>1. pc[c] = "freed" /\ request[c].op = "free" /\ index
  BY DEF ForgetPointer, IndInv, Locks, Pointer
<1>2. answer[c].saw = {}
  BY <1>1 DEF IndInv, Answered, NoAnswer
<1>3. Promise!Answers(c, "ok", {})
  BY <1>1, <1>2, AnswersSeen DEF ForgetPointer, Answers
<1> QED
  BY <1>1, <1>3 DEF ForgetPointer, Promise!Free

LEMMA UnlockStep ==
  ASSUME IndInv, NEW c \in Caller, Unlock(c)
  PROVE  Promise!Return(c)
<1> USE DEF Goto, mu, data, life
<1>1. /\ pc[c] = "unlock"
      /\ answer' = [answer EXCEPT ![c] = NoAnswer]
      /\ request' = [request EXCEPT ![c] = Promise!NoCall]
      /\ UNCHANGED <<index, committed>>
  BY DEF Unlock, NoCall, Promise!NoCall
<1>2. \A d \in Caller : pc'[d] = IF d = c THEN "idle"
                                 ELSE IF pc[d] = "parked" THEN pc'[d] ELSE pc[d]
  BY DEF Unlock, IndInv, Types, Locks
<1>3. \A d \in Caller : d # c /\ pc[d] = "parked" => pc'[d] \in {"parked", "locked"}
  BY DEF Unlock, IndInv, Types, Locks
<1>4. Phases[c] = "answered" /\ Phases' = [Phases EXCEPT ![c] = "idle"]
  <2>1. \A d \in Caller : Phases'[d] = IF d = c THEN "idle" ELSE Phases[d]
    BY <1>2, <1>3 DEF Phases
  <2>2. Phases[c] = "answered"
    BY <1>1 DEF Phases
  <2> QED
    BY <2>1, <2>2 DEF Phases
<1>5. Given' = [Given EXCEPT ![c] = Promise!NoAnswer]
  <2>1. \A d \in Caller : Given'[d] = IF d = c THEN Promise!NoAnswer ELSE Given[d]
    BY <1>1, <1>2, <1>3 DEF Given, NoAnswer, Promise!NoAnswer, IndInv, Types
  <2> QED
    BY <2>1 DEF Given
<1> QED
  BY <1>1, <1>4, <1>5 DEF Promise!Return

(* A call starts: by a goroutine, or by the finalizer. *)
LEMMA CallStep ==
  ASSUME IndInv, NEW c \in Caller, NEW r \in Requests, NEW place \in {"lock", "locked", "parked"},
         pc[c] = "idle", pc' = [pc EXCEPT ![c] = place],
         request' = [request EXCEPT ![c] = r], UNCHANGED <<index, committed, answer>>
  PROVE  Promise!Call(c, r)
<1>1. \A d \in Caller : pc'[d] = IF d = c THEN place ELSE pc[d]
  BY DEF IndInv, Types
<1>2. Phases[c] = "idle" /\ Phases' = [Phases EXCEPT ![c] = "called"]
  <2>1. \A d \in Caller : Phases'[d] = IF d = c THEN "called" ELSE Phases[d]
    BY <1>1 DEF Phases
  <2> QED
    BY <2>1 DEF Phases
<1>3. Given' = Given
  BY <1>1 DEF Given
<1> QED
  BY <1>2, <1>3 DEF Promise!Call

LEMMA InitSeen == Init => Promise!Init
<1> SUFFICES ASSUME Init PROVE Promise!Init
  OBVIOUS
<1> QED
  BY DEF Init, Created, Phases, Given, NoAnswer, NoCall,
         Promise!Init, Promise!NoAnswer, Promise!NoCall

LEMMA StepSeen == IndInv /\ [Next]_vars => [Promise!Next]_(Promise!vars)
<1> SUFFICES ASSUME IndInv, [Next]_vars
             PROVE  Promise!Next \/ UNCHANGED Promise!vars
  OBVIOUS
<1>1. Requests = Promise!Requests
  BY DEF Requests, Promise!Requests, ReadOps, WriteOps
<1>2. ASSUME NEW g \in Goroutine, NEW r \in Requests, CallMethod(g, r)
      PROVE  Promise!Next
  <2>1. g \in Caller
    BY DEF Caller
  <2>2. PICK place \in {"lock", "locked", "parked"} : pc' = [pc EXCEPT ![g] = place]
    BY <1>2 DEF CallMethod, RLock, Goto
  <2>3. Promise!Call(g, r)
    BY <1>2, <2>1, <2>2, CallStep DEF CallMethod, data, life
  <2> QED
    BY <1>1, <2>1, <2>3 DEF Promise!Next
<1>3. ASSUME NEW c \in Caller, Lock(c) \/ Step(c)
      PROVE  Promise!Next \/ UNCHANGED Promise!vars
  <2>1. CASE Lock(c) \/ Drained(c) \/ FreeMemory(c)
    BY <2>1, LockStepUnseen
  <2>2. CASE CheckClosed(c)
    BY <2>2, CheckClosedStep DEF Promise!Next
  <2>3. CASE ReadFirst(c) \/ ReadSecond(c)
    BY <2>3, ReadStep DEF Promise!Next
  <2>4. CASE AddRow(c)
    BY <2>4, AddRowStep
  <2>9. CASE AddEnds(c)
    BY <2>9, AddEndsStep DEF Promise!Next
  <2>5. CASE MarkOrUnmark(c)
    BY <2>5, MarkStep DEF Promise!Next
  <2>6. CASE ResizeOrSetEf(c)
    BY <2>6, TuneStep DEF Promise!Next
  <2>7. CASE ForgetPointer(c)
    BY <2>7, FreeStep DEF Promise!Next
  <2>8. CASE Unlock(c)
    BY <2>8, UnlockStep DEF Promise!Next
  <2> QED
    BY <1>3, <2>1, <2>2, <2>3, <2>4, <2>5, <2>6, <2>7, <2>8, <2>9 DEF Step
<1>4. CASE RunFinalizer
  <2>1. /\ pc[Finalizer] = "idle"
        /\ pc' = [pc EXCEPT ![Finalizer] = "lock"]
        /\ request' = [request EXCEPT ![Finalizer] = [op |-> "free", arg |-> 0]]
        /\ UNCHANGED <<index, committed, answer>>
    BY <1>4 DEF RunFinalizer, Goto, data
  <2>2. Finalizer \in Caller /\ [op |-> "free", arg |-> 0] \in Requests
    BY DEF Caller, Requests
  <2>3. Promise!Call(Finalizer, [op |-> "free", arg |-> 0])
    BY <2>1, <2>2, CallStep
  <2> QED
    BY <1>1, <2>2, <2>3 DEF Promise!Next
<1>5. CASE Drop \/ Collected \/ UNCHANGED vars
  BY <1>5 DEF Drop, Collected, vars, data, Promise!vars, Phases, Given
<1> QED
  BY <1>2, <1>3, <1>4, <1>5 DEF Next

(* The handle implements AtomicIndex: whatever the goroutines do, every    *)
(* call takes effect at one instant and after Free every call is refused.  *)
THEOREM HandleIsAtomic == Spec => ImplementsAtomicIndex
BY InitSeen, StepSeen, HandleInvariant, PTL DEF Spec, ImplementsAtomicIndex, Promise!Spec

=============================================================================
