-------------------------- MODULE ParallelForProofs --------------------------
(***************************************************************************)
(* Proofs, for every number of rows, threads and failing rows, of the      *)
(* safety invariants of ParallelFor.                                       *)
(***************************************************************************)
EXTENDS ParallelFor, TLAPS

Active == {"normalize", "index", "catch", "capture", "stop"}

(* The rows taken are an initial part of the batch.                        *)
RowsInOrder == \A r \in Row : calls[r] > 0 => \A q \in 0..r : calls[q] > 0

(* A thread at work has a row of its own taking, already counted. *)
ActiveRows ==
  \A t \in Thread :
    pc[t] \in Active => row[t] \in Row /\ row[t] < current /\ calls[row[t]] = 1

(* Rows not yet reached were never taken, and until somebody stops the     *)
(* batch every row that was reached was taken.                             *)
CallsFollowCurrent ==
  /\ \A r \in Row : calls[r] <= 1 /\ (r >= current => calls[r] = 0)
  /\ (lastException = NoRow \/ current < Rows) =>
       \A q \in Row : q < current => calls[q] = 1

(* What a thread knows of its own row. *)
OwnRow ==
  \A t \in Thread :
    /\ pc[t] = "index" => norm_array[t] = row[t]
    /\ pc[t] \in {"catch", "capture", "stop"} => row[t] \in failing
    /\ pc[t] = "stop" => lastException # NoRow
    /\ pc[t] = "exited" => current >= Rows \/ lastException # NoRow

(* No row is lost: it is finished, in work, or an exception is captured.   *)
NoRowLost ==
  /\ lastException # NoRow => lastException \in failing
  /\ \A pair \in finished : pair[1] = pair[2] /\ pair[1] \notin failing
  /\ lastException = NoRow =>
       \A r \in Row : calls[r] = 1 =>
         \/ <<r, r>> \in finished
         \/ \E t \in Thread : pc[t] \in Active /\ row[t] = r

(* The caller's progress. *)
CallerState ==
  /\ caller = "looping" =>
       /\ numThreads = 1
       /\ lastException = NoRow
       /\ \A t \in Thread : pc[t] \notin {"catch", "capture", "stop"}
  /\ caller = "spawn" => joined = 0 /\ \A t \in Thread : t >= spawned => pc[t] = "unborn"
  /\ \A t \in Thread : t < joined => pc[t] = "exited"
  /\ caller = "spawn" /\ spawned = 0 => current = 0
  /\ caller = "returned" =>
       \/ \A t \in Thread : pc[t] = "exited"
       \/ outcome = "error" /\ \A t \in Thread : pc[t] = "unborn"
  /\ caller # "returned" => outcome = "none"
  /\ outcome = "ok" => lastException = NoRow
  /\ outcome = "error" => lastException # NoRow \/ current = 0

Parts == ActiveRows /\ CallsFollowCurrent /\ OwnRow /\ NoRowLost /\ CallerState

IndInv == TypeOK /\ RowsInOrder /\ Parts

-----------------------------------------------------------------------------
LEMMA InitInd == Init => IndInv
<1> SUFFICES ASSUME Init PROVE IndInv
  OBVIOUS
<1> USE ConstantsAssumption DEF Init, Row, NoRow, NoThread, Thread, Active
<1>1. numThreads \in Nat \ {0}
  BY DEF EffectiveThreads, ResolveThreadCount
<1>2. TypeOK
  BY <1>1 DEF TypeOK, PC
<1>3. RowsInOrder /\ ActiveRows /\ CallsFollowCurrent
  BY <1>1 DEF RowsInOrder, ActiveRows, CallsFollowCurrent
<1>4. OwnRow /\ NoRowLost /\ CallerState
  BY <1>1 DEF OwnRow, NoRowLost, CallerState
<1> QED
  BY <1>2, <1>3, <1>4 DEF IndInv, Parts

LEMMA SpawnInd ==
  ASSUME IndInv, Spawn
  PROVE  IndInv'
<1> USE ConstantsAssumption DEF IndInv, Parts, Spawn, Row, NoRow, NoThread, Thread, Active
<1>1. TypeOK'
  <2>1. pc' \in [Thread -> PC] /\ spawned' \in 0..numThreads
    BY DEF TypeOK, PC
  <2>2. caller' \in {"spawn", "join", "looping", "returned", "terminated"}
    BY DEF TypeOK
  <2> QED
    BY <2>1, <2>2 DEF TypeOK
<1>2. RowsInOrder'
  BY DEF TypeOK, PC, RowsInOrder, CallsFollowCurrent
<1>3. ActiveRows'
  BY DEF TypeOK, PC, ActiveRows, CallsFollowCurrent
<1>4. CallsFollowCurrent'
  BY DEF TypeOK, PC, CallsFollowCurrent, ActiveRows, OwnRow
<1>5. OwnRow'
  BY DEF TypeOK, PC, OwnRow, ActiveRows
<1>6. NoRowLost'
  <2>1. \A u \in Thread : pc[u] \in Active => pc'[u] = pc[u]
    BY DEF TypeOK, CallerState
  <2> QED
    BY <2>1 DEF TypeOK, NoRowLost
<1>7. CallerState'
  BY DEF TypeOK, PC, CallerState, OwnRow, ActiveRows
<1> QED
  BY <1>1, <1>2, <1>3, <1>4, <1>5, <1>6, <1>7

LEMMA SpawnFailsInd ==
  ASSUME IndInv, SpawnFails
  PROVE  IndInv'
<1> USE ConstantsAssumption
    DEF IndInv, Parts, SpawnFails, Return, Row, NoRow, NoThread, Thread, Active
<1>1. TypeOK' /\ RowsInOrder' /\ ActiveRows' /\ CallsFollowCurrent'
  BY DEF TypeOK, PC, RowsInOrder, ActiveRows, CallsFollowCurrent
<1>2. OwnRow' /\ NoRowLost'
  BY DEF TypeOK, PC, OwnRow, NoRowLost
<1>3. CallerState'
  <2>1. CASE spawned = 0 /\ Return("error")
    <3>1. current = 0 /\ \A t \in Thread : pc[t] = "unborn"
      BY <2>1 DEF TypeOK, CallerState
    <3>2. UNCHANGED <<pc, current, joined, spawned, lastException, numThreads>>
      OBVIOUS
    <3> QED
      BY <2>1, <3>1, <3>2 DEF TypeOK, CallerState
  <2>2. CASE caller' = "terminated" /\ UNCHANGED outcome
    BY <2>2 DEF TypeOK, CallerState
  <2> QED
    BY <2>1, <2>2
<1> QED
  BY <1>1, <1>2, <1>3

LEMMA JoinInd ==
  ASSUME IndInv, Join
  PROVE  IndInv'
<1> USE ConstantsAssumption DEF IndInv, Parts, Join, Row, NoRow, NoThread, Thread, Active, Return
<1>1. TypeOK'
  <2>1. /\ (numThreads \in Nat \ {0})'
        /\ (failing \subseteq Row)'
        /\ (current \in Nat)'
        /\ (lastException \in Row \union {NoRow})'
        /\ (mutexHolder \in Thread \union {NoThread})'
    BY DEF TypeOK, OwnRow
  <2>2. /\ (caller \in {"spawn", "join", "looping", "returned", "terminated"})'
        /\ (spawned \in 0..numThreads)'
        /\ (joined \in 0..numThreads)'
        /\ (outcome \in {"none", "ok", "error"})'
    BY DEF TypeOK
  <2>3. /\ (pc \in [Thread -> PC])'
        /\ (row \in [Thread -> Nat \union {NoRow}])'
    BY DEF TypeOK, PC
  <2>4. (norm_array \in [Thread -> Row \union {NoRow}])'
    BY DEF TypeOK, ActiveRows
  <2>5. (calls \in [Row -> Nat])'
    BY DEF TypeOK
  <2>6. (finished \subseteq Row \X Row)'
    BY DEF TypeOK, ActiveRows, OwnRow
  <2> QED
    BY <2>1, <2>2, <2>3, <2>4, <2>5, <2>6 DEF TypeOK
<1>2. RowsInOrder'
  BY DEF TypeOK, PC, RowsInOrder, CallsFollowCurrent
<1>3. ActiveRows'
  BY DEF TypeOK, PC, ActiveRows, CallsFollowCurrent
<1>4. CallsFollowCurrent'
  BY DEF TypeOK, PC, CallsFollowCurrent, ActiveRows, OwnRow
<1>5. OwnRow'
  BY DEF TypeOK, PC, OwnRow, ActiveRows
<1>6. NoRowLost'
  BY DEF TypeOK, PC, NoRowLost, ActiveRows, OwnRow, CallsFollowCurrent
<1>7. CallerState'
  BY DEF TypeOK, PC, CallerState, OwnRow, ActiveRows
<1> QED
  BY <1>1, <1>2, <1>3, <1>4, <1>5, <1>6, <1>7

LEMMA FetchInd ==
  ASSUME IndInv, NEW t \in Thread, Fetch(t)
  PROVE  IndInv'
<1> USE ConstantsAssumption DEF IndInv, Parts, Fetch, Row, NoRow, NoThread, Thread, Active, Return
<1>1. TypeOK'
  <2>1. /\ (numThreads \in Nat \ {0})'
        /\ (failing \subseteq Row)'
        /\ (current \in Nat)'
        /\ (lastException \in Row \union {NoRow})'
        /\ (mutexHolder \in Thread \union {NoThread})'
    BY DEF TypeOK, OwnRow
  <2>2. /\ (caller \in {"spawn", "join", "looping", "returned", "terminated"})'
        /\ (spawned \in 0..numThreads)'
        /\ (joined \in 0..numThreads)'
        /\ (outcome \in {"none", "ok", "error"})'
    BY DEF TypeOK
  <2>3. /\ (pc \in [Thread -> PC])'
        /\ (row \in [Thread -> Nat \union {NoRow}])'
    BY DEF TypeOK, PC
  <2>4. (norm_array \in [Thread -> Row \union {NoRow}])'
    BY DEF TypeOK, ActiveRows
  <2>5. (calls \in [Row -> Nat])'
    BY DEF TypeOK
  <2>6. (finished \subseteq Row \X Row)'
    BY DEF TypeOK, ActiveRows, OwnRow
  <2> QED
    BY <2>1, <2>2, <2>3, <2>4, <2>5, <2>6 DEF TypeOK
<1>2. RowsInOrder'
  BY DEF TypeOK, PC, RowsInOrder, CallsFollowCurrent
<1>3. ActiveRows'
  BY DEF TypeOK, PC, ActiveRows, CallsFollowCurrent
<1>4. CallsFollowCurrent'
  BY DEF TypeOK, PC, CallsFollowCurrent, ActiveRows, OwnRow
<1>5. OwnRow'
  BY DEF TypeOK, PC, OwnRow, ActiveRows
<1>6. NoRowLost'
  <2>1. \A u \in Thread : pc[u] \in Active => u # t /\ pc'[u] = pc[u] /\ row'[u] = row[u]
    BY DEF TypeOK
  <2>2. current < Rows => /\ pc'[t] = "normalize" /\ row'[t] = current
                          /\ calls' = [calls EXCEPT ![current] = @ + 1]
    BY DEF TypeOK
  <2>3. current >= Rows => calls' = calls
    BY DEF TypeOK
  <2>4. \A r \in Row : calls'[r] = 1 =>
          calls[r] = 1 \/ (current < Rows /\ r = current)
    BY <2>2, <2>3 DEF TypeOK
  <2>5. lastException' = lastException /\ finished' = finished /\ failing' = failing
    OBVIOUS
  <2> QED
    BY <2>1, <2>2, <2>4, <2>5 DEF NoRowLost
<1>7. CallerState'
  <2>1. CASE current >= Rows /\ caller = "looping"
    <3>1. numThreads = 1 /\ t = 0 /\ pc' = [pc EXCEPT ![t] = "exited"]
      BY <2>1 DEF TypeOK, CallerState
    <3>2. \A u \in Thread : pc'[u] = "exited"
      BY <3>1 DEF TypeOK
    <3>3. outcome' = "ok" /\ caller' = "returned" /\ lastException' = lastException
      BY <2>1
    <3>4. lastException = NoRow
      BY <2>1 DEF CallerState
    <3> QED
      BY <3>2, <3>3, <3>4 DEF TypeOK, CallerState
  <2>2. CASE ~(current >= Rows /\ caller = "looping")
    <3>1. UNCHANGED <<caller, outcome, joined, spawned, lastException, numThreads>>
      BY <2>2
    <3> QED
      BY <3>1 DEF TypeOK, CallerState
  <2> QED
    BY <2>1, <2>2
<1> QED
  BY <1>1, <1>2, <1>3, <1>4, <1>5, <1>6, <1>7

LEMMA NormalizeInd ==
  ASSUME IndInv, NEW t \in Thread, Normalize(t)
  PROVE  IndInv'
<1> USE ConstantsAssumption DEF IndInv, Parts, Normalize, Row, NoRow, NoThread, Thread, Active
<1>1. TypeOK'
  <2>1. /\ (numThreads \in Nat \ {0})'
        /\ (failing \subseteq Row)'
        /\ (current \in Nat)'
        /\ (lastException \in Row \union {NoRow})'
        /\ (mutexHolder \in Thread \union {NoThread})'
    BY DEF TypeOK, OwnRow
  <2>2. /\ (caller \in {"spawn", "join", "looping", "returned", "terminated"})'
        /\ (spawned \in 0..numThreads)'
        /\ (joined \in 0..numThreads)'
        /\ (outcome \in {"none", "ok", "error"})'
    BY DEF TypeOK
  <2>3. /\ (pc \in [Thread -> PC])'
        /\ (row \in [Thread -> Nat \union {NoRow}])'
    BY DEF TypeOK, PC
  <2>4. (norm_array \in [Thread -> Row \union {NoRow}])'
    BY DEF TypeOK, ActiveRows
  <2>5. (calls \in [Row -> Nat])'
    BY DEF TypeOK
  <2>6. (finished \subseteq Row \X Row)'
    BY DEF TypeOK, ActiveRows, OwnRow
  <2> QED
    BY <2>1, <2>2, <2>3, <2>4, <2>5, <2>6 DEF TypeOK
<1>2. RowsInOrder'
  BY DEF TypeOK, PC, RowsInOrder, CallsFollowCurrent
<1>3. ActiveRows'
  BY DEF TypeOK, PC, ActiveRows, CallsFollowCurrent
<1>4. CallsFollowCurrent'
  BY DEF TypeOK, PC, CallsFollowCurrent, ActiveRows, OwnRow
<1>5. OwnRow'
  BY DEF TypeOK, PC, OwnRow, ActiveRows
<1>6. NoRowLost'
  BY DEF TypeOK, PC, NoRowLost, ActiveRows, OwnRow, CallsFollowCurrent
<1>7. CallerState'
  BY DEF TypeOK, PC, CallerState, OwnRow, ActiveRows
<1> QED
  BY <1>1, <1>2, <1>3, <1>4, <1>5, <1>6, <1>7

LEMMA CallIndexInd ==
  ASSUME IndInv, NEW t \in Thread, CallIndex(t)
  PROVE  IndInv'
<1> USE ConstantsAssumption DEF IndInv, Parts, CallIndex, Row, NoRow, NoThread, Thread, Active, Return
<1>1. TypeOK'
  <2>1. /\ (numThreads \in Nat \ {0})'
        /\ (failing \subseteq Row)'
        /\ (current \in Nat)'
        /\ (lastException \in Row \union {NoRow})'
        /\ (mutexHolder \in Thread \union {NoThread})'
    BY DEF TypeOK, OwnRow
  <2>2. /\ (caller \in {"spawn", "join", "looping", "returned", "terminated"})'
        /\ (spawned \in 0..numThreads)'
        /\ (joined \in 0..numThreads)'
        /\ (outcome \in {"none", "ok", "error"})'
    BY DEF TypeOK
  <2>3. /\ (pc \in [Thread -> PC])'
        /\ (row \in [Thread -> Nat \union {NoRow}])'
    BY DEF TypeOK, PC
  <2>4. (norm_array \in [Thread -> Row \union {NoRow}])'
    BY DEF TypeOK, ActiveRows
  <2>5. (calls \in [Row -> Nat])'
    BY DEF TypeOK
  <2>6. (finished \subseteq Row \X Row)'
    BY DEF TypeOK, ActiveRows, OwnRow
  <2> QED
    BY <2>1, <2>2, <2>3, <2>4, <2>5, <2>6 DEF TypeOK
<1>2. RowsInOrder'
  BY DEF TypeOK, PC, RowsInOrder, CallsFollowCurrent
<1>3. ActiveRows'
  BY DEF TypeOK, PC, ActiveRows, CallsFollowCurrent
<1>4. CallsFollowCurrent'
  BY DEF TypeOK, PC, CallsFollowCurrent, ActiveRows, OwnRow
<1>5. OwnRow'
  BY DEF TypeOK, PC, OwnRow, ActiveRows
<1>6. NoRowLost'
  <2>1. /\ row[t] \in Row /\ norm_array[t] = row[t]
        /\ \A u \in Thread : u # t => pc'[u] = pc[u]
        /\ row' = row /\ calls' = calls /\ failing' = failing
    BY DEF TypeOK, ActiveRows, OwnRow
  <2>2. CASE row[t] \notin failing
    <3>1. /\ finished' = finished \union {<<row[t], row[t]>>}
          /\ lastException' = lastException
      BY <2>1, <2>2
    <3> QED
      BY <2>1, <2>2, <3>1 DEF NoRowLost
  <2>3. CASE row[t] \in failing /\ caller = "looping"
    <3>1. finished' = finished /\ lastException' = row[t] /\ row[t] # NoRow
      BY <2>1, <2>3
    <3> QED
      BY <2>1, <2>3, <3>1 DEF NoRowLost
  <2>4. CASE row[t] \in failing /\ caller # "looping"
    <3>1. pc'[t] = "catch" /\ finished' = finished /\ lastException' = lastException
      BY <2>4 DEF TypeOK
    <3> QED
      BY <2>1, <3>1 DEF NoRowLost
  <2> QED
    BY <2>2, <2>3, <2>4
<1>7. CallerState'
  <2>1. CASE caller = "looping" /\ row[t] \in failing
    <3>1. numThreads = 1 /\ t = 0 /\ pc' = [pc EXCEPT ![t] = "exited"]
      BY <2>1 DEF TypeOK, CallerState
    <3>2. \A u \in Thread : pc'[u] = "exited"
      BY <3>1 DEF TypeOK
    <3>3. outcome' = "error" /\ caller' = "returned" /\ lastException' # NoRow
      BY <2>1 DEF TypeOK
    <3> QED
      BY <3>2, <3>3 DEF TypeOK, CallerState
  <2>2. CASE ~(caller = "looping" /\ row[t] \in failing)
    <3>1. UNCHANGED <<caller, outcome, joined, spawned, current, lastException, numThreads>>
      BY <2>2
    <3>2. /\ \A u \in Thread : u # t => pc'[u] = pc[u]
          /\ pc[t] = "index" /\ pc'[t] \in {"fetch", "catch"}
          /\ caller = "looping" => pc'[t] = "fetch"
      BY <2>2 DEF TypeOK
    <3> QED
      BY <3>1, <3>2 DEF TypeOK, CallerState
  <2> QED
    BY <2>1, <2>2
<1> QED
  BY <1>1, <1>2, <1>3, <1>4, <1>5, <1>6, <1>7

LEMMA CatchInd ==
  ASSUME IndInv, NEW t \in Thread, Catch(t)
  PROVE  IndInv'
<1> USE ConstantsAssumption DEF IndInv, Parts, Catch, Row, NoRow, NoThread, Thread, Active
<1>1. TypeOK'
  BY DEF TypeOK, PC
<1>2. RowsInOrder'
  BY DEF TypeOK, PC, RowsInOrder, CallsFollowCurrent
<1>3. ActiveRows'
  BY DEF TypeOK, PC, ActiveRows, CallsFollowCurrent
<1>4. CallsFollowCurrent'
  BY DEF TypeOK, PC, CallsFollowCurrent, ActiveRows, OwnRow
<1>5. OwnRow'
  BY DEF TypeOK, PC, OwnRow, ActiveRows
<1>6. NoRowLost'
  BY DEF TypeOK, PC, NoRowLost, ActiveRows, OwnRow, CallsFollowCurrent
<1>7. CallerState'
  BY DEF TypeOK, PC, CallerState, OwnRow, ActiveRows
<1> QED
  BY <1>1, <1>2, <1>3, <1>4, <1>5, <1>6, <1>7

LEMMA CaptureInd ==
  ASSUME IndInv, NEW t \in Thread, Capture(t)
  PROVE  IndInv'
<1> USE ConstantsAssumption DEF IndInv, Parts, Capture, Row, NoRow, NoThread, Thread, Active
<1>1. TypeOK'
  <2>1. lastException' \in Row
    BY DEF TypeOK, OwnRow
  <2> QED
    BY <2>1 DEF TypeOK, PC
<1>2. RowsInOrder'
  BY DEF TypeOK, PC, RowsInOrder, CallsFollowCurrent
<1>3. ActiveRows'
  BY DEF TypeOK, PC, ActiveRows, CallsFollowCurrent
<1>4. CallsFollowCurrent'
  BY DEF TypeOK, PC, CallsFollowCurrent, ActiveRows, OwnRow
<1>5. OwnRow'
  BY DEF TypeOK, PC, OwnRow, ActiveRows
<1>6. NoRowLost'
  BY DEF TypeOK, PC, NoRowLost, ActiveRows, OwnRow, CallsFollowCurrent
<1>7. CallerState'
  BY DEF TypeOK, PC, CallerState, OwnRow, ActiveRows
<1> QED
  BY <1>1, <1>2, <1>3, <1>4, <1>5, <1>6, <1>7

LEMMA StopInd ==
  ASSUME IndInv, NEW t \in Thread, Stop(t)
  PROVE  IndInv'
<1> USE ConstantsAssumption DEF IndInv, Parts, Stop, Row, NoRow, NoThread, Thread, Active
<1>1. TypeOK'
  <2>1. /\ (numThreads \in Nat \ {0})'
        /\ (failing \subseteq Row)'
        /\ (current \in Nat)'
        /\ (lastException \in Row \union {NoRow})'
        /\ (mutexHolder \in Thread \union {NoThread})'
    BY DEF TypeOK, OwnRow
  <2>2. /\ (caller \in {"spawn", "join", "looping", "returned", "terminated"})'
        /\ (spawned \in 0..numThreads)'
        /\ (joined \in 0..numThreads)'
        /\ (outcome \in {"none", "ok", "error"})'
    BY DEF TypeOK
  <2>3. /\ (pc \in [Thread -> PC])'
        /\ (row \in [Thread -> Nat \union {NoRow}])'
    BY DEF TypeOK, PC
  <2>4. (norm_array \in [Thread -> Row \union {NoRow}])'
    BY DEF TypeOK, ActiveRows
  <2>5. (calls \in [Row -> Nat])'
    BY DEF TypeOK
  <2>6. (finished \subseteq Row \X Row)'
    BY DEF TypeOK, ActiveRows, OwnRow
  <2> QED
    BY <2>1, <2>2, <2>3, <2>4, <2>5, <2>6 DEF TypeOK
<1>2. RowsInOrder'
  BY DEF TypeOK, PC, RowsInOrder, CallsFollowCurrent
<1>3. ActiveRows'
  BY DEF TypeOK, PC, ActiveRows, CallsFollowCurrent
<1>4. CallsFollowCurrent'
  BY DEF TypeOK, PC, CallsFollowCurrent, ActiveRows, OwnRow
<1>5. OwnRow'
  BY DEF TypeOK, PC, OwnRow, ActiveRows
<1>6. NoRowLost'
  BY DEF TypeOK, PC, NoRowLost, ActiveRows, OwnRow, CallsFollowCurrent
<1>7. CallerState'
  BY DEF TypeOK, PC, CallerState, OwnRow, ActiveRows
<1> QED
  BY <1>1, <1>2, <1>3, <1>4, <1>5, <1>6, <1>7

-----------------------------------------------------------------------------
LEMMA StepInd == IndInv /\ [Next]_vars => IndInv'
<1> SUFFICES ASSUME IndInv, [Next]_vars PROVE IndInv'
  OBVIOUS
<1>1. CASE Caller
  BY <1>1, SpawnInd, SpawnFailsInd, JoinInd DEF Caller
<1>2. ASSUME NEW t \in Thread, Step(t) PROVE IndInv'
  BY <1>2, FetchInd, NormalizeInd, CallIndexInd, CatchInd, CaptureInd, StopInd DEF Step
<1>3. CASE UNCHANGED vars
  <2>1. TypeOK' /\ RowsInOrder'
    BY <1>3 DEF IndInv, vars, TypeOK, RowsInOrder, Thread, Row
  <2>2. ActiveRows' /\ CallsFollowCurrent' /\ OwnRow'
    BY <1>3 DEF IndInv, Parts, vars, ActiveRows, CallsFollowCurrent, OwnRow, Thread, Row
  <2>3. NoRowLost' /\ CallerState'
    BY <1>3 DEF IndInv, Parts, vars, NoRowLost, CallerState, Thread, Row
  <2> QED
    BY <2>1, <2>2, <2>3 DEF IndInv, Parts
<1> QED
  BY <1>1, <1>2, <1>3 DEF Next, Ended

(* The inductive invariant holds in every reachable state. *)
LEMMA BatchInvariant == Spec => []IndInv
<1>1. Init => IndInv
  BY InitInd
<1>2. IndInv /\ [Next]_vars => IndInv'
  BY StepInd
<1> QED
  BY <1>1, <1>2, PTL DEF Spec

(* For any number of threads and rows, no row beyond the batch is read and *)
(* no segment beyond norm_array written (hnsw_wrapper.cc, ParallelFor).    *)
THEOREM TypeCorrect == Spec => []TypeOK
<1>1. IndInv => TypeOK
  BY DEF IndInv
<1> QED
  BY <1>1, BatchInvariant, PTL

(* No row of a batch is handed to two threads and the rows taken are an    *)
(* initial part of the batch, even when threads store current = end while  *)
(* others increment it (hnsw_wrapper.cc, ParallelFor).                     *)
THEOREM RowsOnceHolds == Spec => []RowsOnce
<1>1. ASSUME IndInv PROVE RowsOnce
  <2> USE <1>1 DEF IndInv, Parts
  <2>1. \A r \in Row : calls[r] \in Nat /\ calls[r] <= 1
    BY DEF TypeOK, CallsFollowCurrent
  <2> QED
    BY <2>1 DEF RowsInOrder, RowsOnce
<1> QED
  BY <1>1, BatchInvariant, PTL

(* Every index call of a Cosine batch reads the vector its own thread      *)
(* normalised for that row.                                                *)
THEOREM SegmentsPrivateHolds == Spec => []SegmentsPrivate
<1>1. IndInv => SegmentsPrivate
  BY DEF IndInv, Parts, NoRowLost, SegmentsPrivate
<1> QED
  BY <1>1, BatchInvariant, PTL

(* A failed call has the exception of a row that throws, or has tried no   *)
(* row; a call that succeeds has finished every row; and no worker runs    *)
(* when the call returns (hnsw_wrapper.cc, ParallelFor).                   *)
THEOREM OutcomeExactHolds == Spec => []OutcomeExact
<1>1. ASSUME IndInv PROVE OutcomeExact
  <2> USE <1>1 DEF IndInv, Parts
  <2>1. outcome = "error" => lastException \in failing \/ \A r \in Row : calls[r] = 0
    <3>1. \A r \in Row : r >= 0
      BY DEF Row
    <3> QED
      BY <3>1 DEF CallerState, NoRowLost, CallsFollowCurrent
  <2>2. ASSUME outcome = "ok"
        PROVE  failing = {} /\ \A r \in Row : <<r, r>> \in finished
    <3>1. lastException = NoRow /\ \A t \in Thread : pc[t] = "exited"
      <4>1. caller = "returned"
        BY <2>2 DEF CallerState
      <4> QED
        BY <2>2, <4>1 DEF CallerState
    <3>2. 0 \in Thread /\ current >= Rows
      BY <3>1 DEF TypeOK, OwnRow, Thread
    <3>3. \A r \in Row : r < current /\ calls[r] = 1
      BY <3>1, <3>2, ConstantsAssumption DEF TypeOK, CallsFollowCurrent, Row
    <3>4. \A r \in Row : <<r, r>> \in finished
      BY <3>1, <3>3 DEF NoRowLost, Active
    <3>5. \A r \in Row : r \notin failing
      BY <3>4 DEF NoRowLost
    <3> QED
      BY <3>4, <3>5 DEF TypeOK
  <2> QED
    BY <2>1, <2>2 DEF OutcomeExact, CallerState
<1> QED
  BY <1>1, BatchInvariant, PTL

=============================================================================
